---- MODULE Spec2Model ----
(***************************************************************************)
(* Debt-sculpting and cashflow-waterfall engine of dutchbay_v13            *)
(* (finance/debt.py, finance/irr.py, finance/metrics.py, adapters.py).     *)
(*                                                                         *)
(* Python floats are modelled as exact rationals <<num, den>> with         *)
(* den > 0, kept in lowest terms; the absent value None is <<0, 0>>.       *)
(* apply_debt_layer is a state machine whose actions are the blocks of the *)
(* function in source order; its loops over years are stepped one year per *)
(* action.  Parameters are drawn where the code reads them from `params`.  *)
(***************************************************************************)
EXTENDS Integers, Sequences, FiniteSets, TLC

VARIABLES
    pc,          \* position inside apply_debt_layer
    p,           \* the parameters read from `params` so far
    cfads,       \* CFADS series, padded to lifetime (debt.py 219-226)
    tr,          \* tranche map built by _solve_mix
    obals,       \* outstanding balance per tranche (bal / obals[k])
    sched,       \* per-tranche rows <<interest, principal, service>>
    year_index,  \* year counter of the schedule constructors
    agg,         \* interest_series, principal_series, debt_service, total_years
    rsv,         \* reserve layer: dsra_m, recv_m, fee_pct, revenues, target_buf, buf, y
    dsra_cash,   \* dsra_cashflows being built
    fees_cash,   \* fees_cashflows being built
    result,      \* the returned dictionary
    irr,         \* one call of an IRR computation: function, inputs, outcome
    batch,       \* a batch driver (run_dir, run_monte_carlo): scenarios, position, records
    caller       \* the caller of apply_debt_layer: the arguments it passed, results it got
vars == <<pc, p, cfads, tr, obals, sched, year_index, agg, rsv, dsra_cash, fees_cash, result,
          irr, batch, caller>>
\* what lives outside apply_debt_layer and the IRR functions
DriverVars == <<batch, caller>>

-----------------------------------------------------------------------------
(* Bounds of the model *)
MaxLife == 2
MaxTenor == 3
MaxIO == 1
MaxCfLen == 2

-----------------------------------------------------------------------------
(* Rational arithmetic standing for Python float arithmetic *)
None == <<0, 0>>

Abs(n) == IF n < 0 THEN -n ELSE n

RECURSIVE GCD(_, _)
GCD(a, b) == IF b = 0 THEN a ELSE GCD(b, a % b)

Norm(n, d) == LET g == GCD(Abs(n), d) IN <<n \div g, d \div g>>

Q(n, d) == Norm(n, d)
Zero == <<0, 1>>
FromInt(n) == <<n, 1>>

QAdd(x, y) ==
    LET g == GCD(x[2], y[2])
        lx == y[2] \div g
        ly == x[2] \div g
    IN  Norm(x[1] * lx + y[1] * ly, x[2] * lx)

QNeg(x) == <<-x[1], x[2]>>
QSub(x, y) == QAdd(x, QNeg(y))

QMul(x, y) ==
    LET g1 == GCD(Abs(x[1]), y[2])
        g2 == GCD(Abs(y[1]), x[2])
    IN  Norm((x[1] \div g1) * (y[1] \div g2), (x[2] \div g2) * (y[2] \div g1))

QInv(x) == IF x[1] < 0 THEN <<-x[2], -x[1]>> ELSE <<x[2], x[1]>>
QDiv(x, y) == QMul(x, QInv(y))

\* sign of a/b - c/d for b, d > 0, by the Euclidean expansion (no products)
RECURSIVE CmpFrac(_, _, _, _)
CmpFrac(a, b, c, d) ==
    LET qa == a \div b
        qc == c \div d
        ra == a % b
        rc == c % d
    IN  IF qa # qc THEN (IF qa < qc THEN -1 ELSE 1)
        ELSE IF ra = 0 /\ rc = 0 THEN 0
        ELSE IF ra = 0 THEN -1
        ELSE IF rc = 0 THEN 1
        ELSE CmpFrac(d, rc, b, ra)

QLt(x, y) == CmpFrac(x[1], x[2], y[1], y[2]) < 0
QLe(x, y) == CmpFrac(x[1], x[2], y[1], y[2]) <= 0
QMax(x, y) == IF QLt(x, y) THEN y ELSE x
QMin(x, y) == IF QLt(y, x) THEN y ELSE x
QPos(x) == x[1] > 0
QAbs(x) == <<Abs(x[1]), x[2]>>

RECURSIVE QPow(_, _)
QPow(x, n) == IF n = 0 THEN FromInt(1) ELSE QMul(x, QPow(x, n - 1))

RECURSIVE QSum(_)
QSum(s) == IF s = <<>> THEN Zero ELSE QAdd(Head(s), QSum(Tail(s)))

\* Python truthiness of an optional float: None and 0.0 are falsy
Truthy(x) == x # None /\ x[1] # 0
\* (x or 0.0)
OrZero(x) == IF Truthy(x) THEN x ELSE Zero

\* Python slices s[a:b] on a 0-based list held as a 1-based sequence
Slice(s, a, b) ==
    LET hi == IF b < Len(s) THEN b ELSE Len(s)
    IN  IF a >= hi THEN <<>> ELSE [i \in 1..(hi - a) |-> s[a + i]]

Max2(a, b) == IF a > b THEN a ELSE b
Min2(a, b) == IF a < b THEN a ELSE b

-----------------------------------------------------------------------------
(* Input domains *)
Tranches == <<"LKR", "USD", "DFI">>
TrNames == {"LKR", "USD", "DFI"}

CapexSet == {FromInt(24)}
DebtRatioSet == {None, Q(1, 2)}
AmortSet == {"level", "sculpted"}
TargetSet == {None, Q(3, 2)}
CfSet == {FromInt(-6), FromInt(12), FromInt(36)}
\* financing.mix: lkr_max, dfi_max, usd_commercial_min
MixSet == { [lkr_max |-> None, dfi_max |-> None, usd_min |-> None],
            [lkr_max |-> Q(1, 2), dfi_max |-> Q(1, 4), usd_min |-> None] }
\* financing.rates: nominal rate per tranche
RateSet == { [LKR |-> Zero, USD |-> Zero, DFI |-> Zero],
             [LKR |-> Q(1, 2), USD |-> Q(1, 4), DFI |-> Zero] }
\* financing.reserves and guarantee fee, with the revenue of every annual row
ReserveSet ==
    { [dsra_m |-> 0, recv_m |-> 0, fee_pct |-> None, revenue |-> FromInt(20)],
      [dsra_m |-> 1, recv_m |-> 0, fee_pct |-> None, revenue |-> FromInt(20)],
      [dsra_m |-> 6, recv_m |-> 0, fee_pct |-> Q(1, 10), revenue |-> FromInt(20)],
      [dsra_m |-> 12, recv_m |-> 0, fee_pct |-> None, revenue |-> FromInt(20)],
      [dsra_m |-> 0, recv_m |-> 12, fee_pct |-> Q(1, 10), revenue |-> FromInt(20)],
      [dsra_m |-> 6, recv_m |-> 12, fee_pct |-> Q(1, 10), revenue |-> FromInt(20)],
      [dsra_m |-> 6, recv_m |-> 12, fee_pct |-> None, revenue |-> FromInt(20)],
      [dsra_m |-> 0, recv_m |-> 12, fee_pct |-> Q(1, 10), revenue |-> FromInt(0)] }

-----------------------------------------------------------------------------
(* Pure helpers of debt.py *)

\* variant of _pmt that ignores the rate (straight-line payment)
PmtStraightLine(rate, nper, pv) == QDiv(pv, FromInt(nper))

\* _pmt: classic annuity payment
Pmt(rate, nper, pv) ==
    IF rate[1] = 0 THEN QDiv(pv, FromInt(nper))
    ELSE LET g == QPow(QAdd(FromInt(1), rate), nper)
         IN  QDiv(QMul(pv, QMul(rate, g)), QSub(g, FromInt(1)))

\* variant of _solve_mix that takes the whole shortfall from LKR, unclamped
SolveMixAmountsUnclamped(mix, debt_total) ==
    LET lkr0 == QMin(QMul(debt_total, OrZero(mix.lkr_max)), debt_total)
        dfi0 == QMin(QMul(debt_total, OrZero(mix.dfi_max)),
                     QMax(Zero, QSub(debt_total, lkr0)))
        usd0 == QMax(Zero, QSub(QSub(debt_total, lkr0), dfi0))
        min_usd == QMul(debt_total, OrZero(mix.usd_min))
    IN  IF QLt(usd0, min_usd)
        THEN [LKR |-> QSub(lkr0, QSub(min_usd, usd0)), USD |-> min_usd, DFI |-> dfi0]
        ELSE [LKR |-> lkr0, USD |-> usd0, DFI |-> dfi0]

\* variant of lines 97-105 that pulls the shortfall from DFI before LKR
SolveMixAmountsDfiFirst(mix, debt_total) ==
    LET lkr0 == QMin(QMul(debt_total, OrZero(mix.lkr_max)), debt_total)
        dfi0 == QMin(QMul(debt_total, OrZero(mix.dfi_max)),
                     QMax(Zero, QSub(debt_total, lkr0)))
        usd0 == QMax(Zero, QSub(QSub(debt_total, lkr0), dfi0))
        need0 == QSub(QMul(debt_total, OrZero(mix.usd_min)), usd0)
        pull_dfi == QMin(need0, dfi0)
        need1 == QSub(need0, pull_dfi)
        pull_lkr == IF QPos(need1) THEN QMin(need1, lkr0) ELSE Zero
        lkr1 == QSub(lkr0, pull_lkr)
        dfi1 == QSub(dfi0, pull_dfi)
    IN  IF QPos(need0)
        THEN [LKR |-> lkr1, USD |-> QSub(QSub(debt_total, lkr1), dfi1), DFI |-> dfi1]
        ELSE [LKR |-> lkr0, USD |-> usd0, DFI |-> dfi0]

\* _solve_mix: tranche principals from caps and the USD-commercial floor
SolveMixAmounts(mix, debt_total) ==
    LET usd_min == OrZero(mix.usd_min)
        lkr0 == QMin(QMul(debt_total, OrZero(mix.lkr_max)), debt_total)
        dfi0 == QMin(QMul(debt_total, OrZero(mix.dfi_max)),
                     QMax(Zero, QSub(debt_total, lkr0)))
        usd0 == QMax(Zero, QSub(QSub(debt_total, lkr0), dfi0))
        min_usd == QMul(debt_total, usd_min)
        need0 == QSub(min_usd, usd0)
        pull_lkr == QMin(need0, lkr0)
        lkr1 == QSub(lkr0, pull_lkr)
        need1 == QSub(need0, pull_lkr)
        pull_dfi == IF QPos(need1) THEN QMin(need1, dfi0) ELSE Zero
        dfi1 == QSub(dfi0, pull_dfi)
    IN  IF QLt(usd0, min_usd)
        THEN [LKR |-> lkr1, USD |-> QSub(QSub(debt_total, lkr1), dfi1), DFI |-> dfi1]
        ELSE [LKR |-> lkr0, USD |-> usd0, DFI |-> dfi0]

SolveMix(mix, rates, years_io, debt_total) ==
    LET amt == SolveMixAmounts(mix, debt_total)
    IN  [k \in TrNames |->
            [rate |-> OrZero(rates[k]), principal |-> amt[k], years_io |-> years_io]]

\* variant of the balance update with the sign of the repayment flipped
SculptNewBalSignSlip(bal, principal_k) == QAdd(bal, principal_k)

\* variant of the principal target that does not net off the interest
SculptPrincipalTotalGross(target_service, total_interest) == target_service

\* one amortization year of _annuity_schedule for one tranche
AnnuityPrincipal(bal, rate, pmt) == QMax(Zero, QSub(pmt, QMul(bal, rate)))
AnnuityNewBal(bal, principal) == QMax(Zero, QSub(bal, principal))

\* variant of line 168 without the clamp at zero
SculptPrincipalTotalSigned(target_service, total_interest) ==
    QSub(target_service, total_interest)

\* one amortization year of _sculpted_schedule
SculptTargetService(cf, dscr_target) == QMax(Zero, QDiv(cf, dscr_target))
SculptPrincipalTotal(target_service, total_interest) ==
    QMax(Zero, QSub(target_service, total_interest))
\* variant of line 173 that leaves out the cap at the tranche's own balance
SculptPrincipalUncapped(bal, principal_total, total_bal) ==
    QMul(principal_total, QDiv(bal, total_bal))

SculptPrincipal(bal, principal_total, total_bal) ==
    LET prorata == IF QPos(total_bal) THEN QDiv(bal, total_bal) ELSE Zero
    IN  QMin(bal, QMul(principal_total, prorata))
SculptNewBal(bal, principal_k) == QMax(Zero, QSub(bal, principal_k))

\* cfads[y] if y < len(cfads) else (cfads[-1] if cfads else 0.0), y 0-based
CfAt(cf, y) ==
    IF y < Len(cf) THEN cf[y + 1]
    ELSE IF Len(cf) > 0 THEN cf[Len(cf)] ELSE Zero

-----------------------------------------------------------------------------
NoResult == [mode |-> "none"]
NoAgg == [total_years |-> 0, interest_series |-> <<>>, principal_series |-> <<>>,
          debt_service |-> <<>>]
NoRsv == [dsra_m |-> 0, recv_m |-> 0, fee_pct |-> None, revenues |-> <<>>,
          target_buf |-> <<>>, buf |-> Zero, y |-> 0]
NoP == [lifetime |-> 0]
NoIrr == [fn |-> "idle"]
NoBatch == [driver |-> "none"]
NoCaller == [calls |-> 0]

Init ==
    /\ pc = "call"
    /\ p = NoP
    /\ cfads = <<>>
    /\ tr = <<>>
    /\ obals = <<>>
    /\ sched = <<>>
    /\ year_index = 0
    /\ agg = NoAgg
    /\ rsv = NoRsv
    /\ dsra_cash = <<>>
    /\ fees_cash = <<>>
    /\ result = NoResult
    /\ irr = NoIrr
    /\ batch = NoBatch
    /\ caller = NoCaller

Rep(x, n) == [i \in 1..n |-> x]

\* cfads list of lines 219-226: the rows' cfads_usd, padded with the last value
PadCfads(rowcf, lifetime) ==
    [i \in 1..lifetime |->
        IF i <= Len(rowcf) THEN rowcf[i]
        ELSE IF Len(rowcf) > 0 THEN rowcf[Len(rowcf)] ELSE Zero]

EquityOnlyResult(lifetime) ==
    [mode |-> "equity_only",
     dscr_series |-> Rep(None, lifetime),
     dscr_min |-> None,
     balloon_remaining |-> Zero,
     debt_service |-> Rep(Zero, lifetime),
     principal_series |-> Rep(Zero, lifetime),
     interest_series |-> Rep(Zero, lifetime),
     dsra_cashflows |-> Rep(Zero, lifetime),
     fees_cashflows |-> Rep(Zero, lifetime),
     notes |-> <<"equity_only">>]

\* line 200: not debt_ratio or debt_ratio <= 0.0
NoDebt(dr) == IF Truthy(dr) THEN QLe(dr, Zero) ELSE TRUE

\* debt.py 194-212 on the parameters read: equity-only early return
EnterEquityOnlyWith(L, dr, T) ==
    /\ NoDebt(dr)
    /\ p' = [lifetime |-> L, debt_ratio |-> dr, tenor_years |-> T]
    /\ result' = EquityOnlyResult(L)
    /\ pc' = "done"
    /\ UNCHANGED <<batch, irr, cfads, tr, obals, sched, year_index, agg, rsv, dsra_cash, fees_cash>>

\* debt.py 194-212: parameters read, equity-only early return
EnterEquityOnly ==
    /\ pc = "call"
    /\ \E L \in 1..MaxLife, dr \in DebtRatioSet, T \in 0..MaxTenor :
        EnterEquityOnlyWith(L, dr, T)
    /\ UNCHANGED caller

\* debt.py 194-226 on the parameters read and on rowcf, the CFADS of the rows
\* annual_rows[:lifetime]: debt totals, CFADS series
EnterDebtWith(L, dr, T, am, tgt, capex, rowcf) ==
    /\ ~NoDebt(dr)
    /\ p' = [lifetime |-> L, debt_ratio |-> dr, tenor_years |-> T,
             amortization |-> am, dscr_target |-> tgt, capex |-> capex,
             debt_total |-> QMul(capex, dr),
             equity_total |-> QSub(capex, QMul(capex, dr)),
             n_rows |-> Len(rowcf)]
    /\ cfads' = PadCfads(rowcf, L)
    /\ pc' = "mix"
    /\ UNCHANGED <<batch, irr, tr, obals, sched, year_index, agg, rsv, dsra_cash, fees_cash, result>>

\* debt.py 194-226: parameters read, debt totals, CFADS series
EnterDebt ==
    /\ pc = "call"
    /\ \E L \in 1..MaxLife, dr \in DebtRatioSet, T \in 0..MaxTenor,
          am \in AmortSet, tgt \in TargetSet, capex \in CapexSet, n \in 0..MaxLife :
        /\ n <= L
        /\ \E rowcf \in [1..n -> CfSet] :
            EnterDebtWith(L, dr, T, am, tgt, capex, rowcf)
    /\ UNCHANGED caller

\* line 236: the sculpted constructor is used only with a truthy dscr_target
UseSculpted(pp) == pp.amortization = "sculpted" /\ Truthy(pp.dscr_target)

IoYears(t) == Max2(Max2(t["LKR"].years_io, t["USD"].years_io), t["DFI"].years_io)
AmortYears(pp, t) == Max2(0, pp.tenor_years - IoYears(t))

\* debt.py 228-233 on the parameters read, and the constructors' initial state
\* (123-124, 146-150)
TrancheMixWith(mix, rates, io) ==
    /\ LET t == SolveMix(mix, rates, io, p.debt_total) IN
        /\ p' = p @@ [mix |-> mix, rates |-> rates, interest_only_years |-> io]
        /\ tr' = t
        /\ obals' = [k \in TrNames |-> t[k].principal]
    /\ sched' = [k \in TrNames |-> <<>>]
    /\ year_index' = 0
    /\ pc' = "schedule"
    /\ UNCHANGED <<batch, irr, cfads, agg, rsv, dsra_cash, fees_cash, result>>

\* debt.py 228-233 and the constructors' initial state (123-124, 146-150)
TrancheMix ==
    /\ pc = "mix"
    /\ \E mix \in MixSet, rates \in RateSet, io \in 0..MaxIO :
        TrancheMixWith(mix, rates, io)
    /\ UNCHANGED caller

\* interest-only year: _annuity_schedule 126-129, _sculpted_schedule 153-158
IOYear ==
    /\ pc = "schedule"
    /\ year_index < IoYears(tr)
    /\ sched' = [k \in TrNames |->
                    LET interest == QMul(obals[k], tr[k].rate)
                    IN  Append(sched[k], <<interest, Zero, interest>>)]
    /\ year_index' = year_index + 1
    /\ UNCHANGED <<DriverVars, irr, pc, p, cfads, tr, obals, agg, rsv, dsra_cash, fees_cash, result>>

\* amortization year of _annuity_schedule (131-137), every tranche
AnnuityYear ==
    /\ pc = "schedule"
    /\ ~UseSculpted(p)
    /\ year_index >= IoYears(tr)
    /\ year_index < IoYears(tr) + AmortYears(p, tr)
    /\ LET n == AmortYears(p, tr)
           pmt == [k \in TrNames |-> Pmt(tr[k].rate, n, tr[k].principal)]
           interest == [k \in TrNames |-> QMul(obals[k], tr[k].rate)]
           principal == [k \in TrNames |-> AnnuityPrincipal(obals[k], tr[k].rate, pmt[k])]
       IN  /\ obals' = [k \in TrNames |-> AnnuityNewBal(obals[k], principal[k])]
           /\ sched' = [k \in TrNames |->
                          Append(sched[k], <<interest[k], principal[k],
                                             QAdd(interest[k], principal[k])>>)]
    /\ year_index' = year_index + 1
    /\ UNCHANGED <<DriverVars, irr, pc, p, cfads, tr, agg, rsv, dsra_cash, fees_cash, result>>

\* amortization year of _sculpted_schedule (161-177)
SculptedYear ==
    /\ pc = "schedule"
    /\ UseSculpted(p)
    /\ year_index >= IoYears(tr)
    /\ year_index < IoYears(tr) + AmortYears(p, tr)
    /\ LET cf == CfAt(cfads, year_index)
           target_service == SculptTargetService(cf, p.dscr_target)
           interest == [k \in TrNames |-> QMul(obals[k], tr[k].rate)]
           total_interest == QSum([i \in 1..3 |-> interest[Tranches[i]]])
           principal_total == SculptPrincipalTotal(target_service, total_interest)
           sum_bal == QSum([i \in 1..3 |-> obals[Tranches[i]]])
           total_bal == IF sum_bal[1] # 0 THEN sum_bal ELSE FromInt(1)
           principal == [k \in TrNames |->
                            SculptPrincipal(obals[k], principal_total, total_bal)]
       IN  /\ obals' = [k \in TrNames |-> SculptNewBal(obals[k], principal[k])]
           /\ sched' = [k \in TrNames |->
                          Append(sched[k], <<interest[k], principal[k],
                                             QAdd(interest[k], principal[k])>>)]
    /\ year_index' = year_index + 1
    /\ UNCHANGED <<DriverVars, irr, pc, p, cfads, tr, agg, rsv, dsra_cash, fees_cash, result>>

\* sum over the tranches of column c (1 interest, 2 principal) of year y (1-based)
ColSum(sch, c, y) ==
    QSum([i \in 1..3 |->
            IF y <= Len(sch[Tranches[i]]) THEN sch[Tranches[i]][y][c] ELSE Zero])

MaxLen(sch) == Max2(Max2(Len(sch["LKR"]), Len(sch["USD"])), Len(sch["DFI"]))

\* variant of the consolidated debt service that leaves the principal out
DebtServiceInterestOnly(interest_series, principal_series) == interest_series

\* line 251: debt service per year from the consolidated series
DebtService(interest_series, principal_series) ==
    [y \in 1..Len(interest_series) |-> QAdd(interest_series[y], principal_series[y])]

\* debt.py 241-251: consolidated interest, principal and debt service per year
Aggregate ==
    /\ pc = "schedule"
    /\ year_index = IoYears(tr) + AmortYears(p, tr)
    /\ LET total_years == Max2(p.lifetime, MaxLen(sched))
           interest_series == [y \in 1..total_years |-> ColSum(sched, 1, y)]
           principal_series == [y \in 1..total_years |-> ColSum(sched, 2, y)]
       IN  agg' = [total_years |-> total_years,
                   interest_series |-> interest_series,
                   principal_series |-> principal_series,
                   debt_service |-> DebtService(interest_series, principal_series)]
    /\ pc' = "reserve"
    /\ UNCHANGED <<DriverVars, irr, p, cfads, tr, obals, sched, year_index, rsv, dsra_cash, fees_cash, result>>

\* any(revenues)
AnyRevenue(revs) == \E i \in 1..Len(revs) : revs[i][1] # 0

\* lines 266-268: the guarantee fee, a percentage of each year's revenue
GuaranteeFees(fee_pct, revs, total_years) ==
    [y \in 1..total_years |->
        IF Truthy(fee_pct) /\ AnyRevenue(revs) /\ y <= Len(revs)
        THEN QMul(revs[y], fee_pct) ELSE Zero]

\* lines 270-271: target_buf[y] = sum(monthly[y:y + dsra_m]), y 0-based
TargetBuf(debt_service, dsra_m, total_years) ==
    LET monthly == [y \in 1..total_years |-> QDiv(debt_service[y], FromInt(12))]
    IN  [y \in 1..total_years |-> QSum(Slice(monthly, y - 1, y - 1 + dsra_m))]

\* variant of line 269 with `if` in place of `elif`
UseDsraAlongsideGuarantee(r, total_years) == r.dsra_m > 0 /\ total_years > 0

\* variant of lines 286-290 that reports 0.0 for a year without debt service
DscrSeriesZeroDefault(cf, debt_service, total_years) ==
    [y \in 1..total_years |->
        IF QPos(debt_service[y]) THEN QDiv(CfAt(cf, y - 1), debt_service[y]) ELSE Zero]

\* line 264: the receivables guarantee is taken whenever its months are set
UseGuarantee(r) == r.recv_m > 0
\* line 269: the DSRA is taken only when the guarantee is not
UseDsra(r, total_years) == ~UseGuarantee(r) /\ r.dsra_m > 0 /\ total_years > 0

\* debt.py 253-272 on the reserve parameters r read and on revs, the revenues
\* of the rows annual_rows[:total_years]: guarantee fee or DSRA set up
ReserveSelectWith(r, revs) ==
    /\ fees_cash' = IF UseGuarantee(r)
                    THEN GuaranteeFees(r.fee_pct, revs, agg.total_years)
                    ELSE Rep(Zero, agg.total_years)
    /\ rsv' = [dsra_m |-> r.dsra_m, recv_m |-> r.recv_m, fee_pct |-> r.fee_pct,
               revenues |-> revs,
               target_buf |-> IF UseDsra(r, agg.total_years)
                              THEN TargetBuf(agg.debt_service, r.dsra_m, agg.total_years)
                              ELSE <<>>,
               buf |-> Zero, y |-> 0]
    /\ pc' = IF UseDsra(r, agg.total_years) THEN "dsra" ELSE "dscr"
    /\ dsra_cash' = Rep(Zero, agg.total_years)
    /\ UNCHANGED <<batch, irr, p, cfads, tr, obals, sched, year_index, agg, result>>

\* debt.py 253-272: reserve parameters read, guarantee fee or DSRA set up
ReserveSelect ==
    /\ pc = "reserve"
    /\ \E r \in ReserveSet :
        ReserveSelectWith(r, Rep(r.revenue, Min2(p.n_rows, agg.total_years)))
    /\ UNCHANGED caller

Eps9 == <<1, 1000000000>>
Eps6 == <<1, 1000000>>

\* variant of lines 274-283 in which a release is paid out but left in the
\* balance
DsraStepReleaseUnbooked(need, buf) ==
    LET delta == QSub(need, buf)
    IN  IF QLt(QAbs(delta), Eps9) THEN [kind |-> "pass", cash |-> Zero, buf |-> buf]
        ELSE IF QPos(delta)
        THEN [kind |-> "funding", cash |-> QNeg(delta), buf |-> QAdd(buf, delta)]
        ELSE [kind |-> "release", cash |-> QNeg(delta), buf |-> buf]

\* lines 274-283: the cash flow of the year and the balance after it
DsraStep(need, buf) ==
    LET delta == QSub(need, buf)
    IN  IF QLt(QAbs(delta), Eps9) THEN [kind |-> "pass", cash |-> Zero, buf |-> buf]
        ELSE IF QPos(delta)
        THEN [kind |-> "funding", cash |-> QNeg(delta), buf |-> QAdd(buf, delta)]
        ELSE [kind |-> "release", cash |-> QNeg(delta), buf |-> QAdd(buf, delta)]

\* lines 273-283: one year of the running DSRA balance
DsraYear ==
    /\ pc = "dsra"
    /\ rsv.y < agg.total_years
    /\ LET y == rsv.y + 1
           step == DsraStep(rsv.target_buf[y], rsv.buf)
       IN  /\ dsra_cash' = IF step.kind = "pass" THEN dsra_cash
                           ELSE [dsra_cash EXCEPT ![y] = QAdd(@, step.cash)]
           /\ rsv' = [rsv EXCEPT !.y = y, !.buf = step.buf]
    /\ UNCHANGED <<DriverVars, irr, pc, p, cfads, tr, obals, sched, year_index, agg, fees_cash, result>>

\* end of the DSRA loop
DsraDone ==
    /\ pc = "dsra"
    /\ rsv.y = agg.total_years
    /\ pc' = "dscr"
    /\ UNCHANGED <<DriverVars, irr, p, cfads, tr, obals, sched, year_index, agg, rsv, dsra_cash, fees_cash, result>>

\* lines 286-290: DSCR per year, None without debt service
DscrSeries(cf, debt_service, total_years) ==
    [y \in 1..total_years |->
        IF QPos(debt_service[y]) THEN QDiv(CfAt(cf, y - 1), debt_service[y]) ELSE None]

\* line 291: min of the defined entries, default None
RECURSIVE MinDefined(_)
MinDefined(s) ==
    IF s = <<>> THEN None
    ELSE LET rest == MinDefined(Tail(s))
         IN  IF Head(s) = None THEN rest
             ELSE IF rest = None THEN Head(s)
             ELSE QMin(Head(s), rest)

\* lines 294-295: balloon at maturity
Balloon(debt_total, principal_series) ==
    QMax(Zero, QSub(debt_total, QSum(principal_series)))

\* lines 301-306: advisory notes (dscr_min + 1e-9 < covenant, stated as a
\* difference so that the threshold is compared, never added)
Notes(balloon_remaining, dscr_min, min_dscr_covenant) ==
    (IF QLt(Eps6, balloon_remaining) THEN <<"balloon">> ELSE <<>>)
    \o (IF dscr_min # None /\ min_dscr_covenant # None
           /\ QLt(Eps9, QSub(min_dscr_covenant, dscr_min))
        THEN <<"covenant">> ELSE <<>>)

MinDscrSet == {None, FromInt(2)}

\* debt.py 285-322 on the covenant read: DSCR series and minimum, balloon,
\* adjustments, notes, return
FinishWith(min_dscr) ==
    /\ LET ty == agg.total_years
            L == p.lifetime
            dscr_series == DscrSeries(cfads, agg.debt_service, ty)
            dscr_min == MinDefined(dscr_series)
            balloon_remaining == Balloon(p.debt_total, agg.principal_series)
            adjustments == [y \in 1..ty |->
                QSub(QAdd(QNeg(agg.debt_service[y]), dsra_cash[y]), fees_cash[y])]
        IN /\ result' = [mode |-> "debt_applied",
                       debt_total |-> p.debt_total,
                       equity_total |-> p.equity_total,
                       interest_series |-> Slice(agg.interest_series, 0, L),
                       principal_series |-> Slice(agg.principal_series, 0, L),
                       debt_service |-> Slice(agg.debt_service, 0, L),
                       dscr_series |-> Slice(dscr_series, 0, L),
                       dscr_min |-> dscr_min,
                       dsra_cashflows |-> Slice(dsra_cash, 0, L),
                       fees_cashflows |-> Slice(fees_cash, 0, L),
                       balloon_remaining |-> balloon_remaining,
                       adjustments |-> Slice(adjustments, 0, L),
                       notes |-> Notes(balloon_remaining, dscr_min, min_dscr)]
           /\ p' = p @@ [min_dscr |-> min_dscr]
    /\ pc' = "done"
    /\ UNCHANGED <<batch, irr, cfads, tr, obals, sched, year_index, agg, rsv, dsra_cash, fees_cash>>

\* debt.py 285-322: DSCR series and minimum, balloon, adjustments, notes, return
Finish ==
    /\ pc = "dscr"
    /\ \E min_dscr \in MinDscrSet : FinishWith(min_dscr)
    /\ UNCHANGED caller

-----------------------------------------------------------------------------
(* Properties of apply_debt_layer *)

DebtDone == pc = "done" /\ result.mode = "debt_applied"
AfterMix == {"schedule", "reserve", "dsra", "dscr"}

\* balance of tranche k at the start of year y (1-based) of its schedule
RECURSIVE PrincipalPaidBefore(_, _)
PrincipalPaidBefore(rows, y) ==
    IF y <= 1 THEN Zero ELSE QAdd(rows[y - 1][2], PrincipalPaidBefore(rows, y - 1))
BalAtStart(k, y) == QSub(tr[k].principal, PrincipalPaidBefore(sched[k], y))

\* C1: in every schedule, level-annuity or sculpted, each tranche's outstanding
\* balance is never negative and never increases from one year to the next,
\* through the interest-only years, the amortizing years and after maturity.
C1_BalanceNonIncreasing ==
    [][(pc \in AfterMix =>
         (\A k \in TrNames : QLe(Zero, obals'[k]) /\ QLe(obals'[k], obals[k])))]_vars

\* C1 witness: a sculpted schedule with a grace year in which a tranche has
\* repaid part, not all, of its principal.
C1_Witness ==
    /\ pc = "schedule"
    /\ UseSculpted(p)
    /\ IoYears(tr) > 0
    /\ year_index > IoYears(tr)
    /\ \E k \in TrNames : QPos(obals[k]) /\ QLt(obals[k], tr[k].principal)

\* C2 (as claimed): balloon_remaining equals the original debt principal minus
\* the sum of the returned principal_series, and is never negative, for any
\* tenor_years, interest_only_years and lifetime.
C2_BalloonMatchesReturned ==
    DebtDone =>
        /\ result.balloon_remaining =
              QSub(result.debt_total, QSum(result.principal_series))
        /\ QLe(Zero, result.balloon_remaining)

\* a year of the sculpted schedule in which a tranche that still owed principal
\* was allocated its whole remaining balance
CappedYear(y) ==
    /\ y <= Len(sched["USD"])
    /\ \E k \in TrNames : QPos(BalAtStart(k, y)) /\ sched[k][y][2] = BalAtStart(k, y)

\* C3 (as claimed): in a sculpted schedule every year with positive total debt
\* service has DSCR equal to dscr_target, except years capped by an exhausted
\* tranche balance.
C3_DscrEqualsTargetEveryYear ==
    (DebtDone /\ UseSculpted(p)) =>
        \A y \in 1..Len(result.dscr_series) :
            (QPos(result.debt_service[y]) /\ ~CappedYear(y))
                => result.dscr_series[y] = p.dscr_target

AmortizingYear(y) == y > IoYears(tr) /\ y <= IoYears(tr) + AmortYears(p, tr)

\* C3 (amended): in a sculpted schedule, every amortizing (post-grace) year with
\* positive debt service in which CFADS[y] / dscr_target is at least that
\* year's total interest has DSCR equal to dscr_target, except capped years.
C3_DscrEqualsTargetWhenSculpting ==
    (DebtDone /\ UseSculpted(p)) =>
        \A y \in 1..Len(result.dscr_series) :
            ( /\ AmortizingYear(y)
              /\ QPos(result.debt_service[y])
              /\ QLe(result.interest_series[y], QDiv(CfAt(cfads, y - 1), p.dscr_target))
              /\ ~CappedYear(y) )
                => result.dscr_series[y] = p.dscr_target

\* C3 witness: a returned amortizing year with interest and principal, not
\* capped, whose DSCR is the target.
C3_Witness ==
    /\ DebtDone
    /\ UseSculpted(p)
    /\ \E y \in 1..Len(result.dscr_series) :
        /\ AmortizingYear(y)
        /\ QPos(result.interest_series[y])
        /\ QPos(result.principal_series[y])
        /\ ~CappedYear(y)
        /\ result.dscr_series[y] = p.dscr_target

PrincipalRepaid(k) == QSum([y \in 1..Len(sched[k]) |-> sched[k][y][2]])

FullyRepaid ==
    /\ \A k \in TrNames :
          QPos(tr[k].principal) =>
              PrincipalRepaid(k) = tr[k].principal /\ obals[k] = Zero
    /\ result.balloon_remaining = Zero

\* C4 (as claimed): under level-annuity amortization every tranche with
\* positive principal repays exactly its original principal over the amortizing
\* years, ends with zero balance, and the balloon is zero.
C4_LevelFullyRepaid ==
    (DebtDone /\ ~UseSculpted(p)) => FullyRepaid

\* C4 (amended): the same, whenever there is at least one amortizing year
\* (tenor_years > interest_only_years).
C4_LevelFullyRepaidWhenAmortizing ==
    (DebtDone /\ ~UseSculpted(p) /\ AmortYears(p, tr) > 0) => FullyRepaid

\* C4 witness: a level schedule of several amortizing years on an
\* interest-bearing tranche, fully repaid.
C4_Witness ==
    /\ DebtDone
    /\ p.amortization = "level"
    /\ AmortYears(p, tr) >= 2
    /\ QPos(tr["LKR"].principal) /\ QPos(tr["LKR"].rate)
    /\ QPos(tr["USD"].principal) /\ QPos(tr["USD"].rate)
    /\ FullyRepaid

\* C5 (as claimed): with amortization "sculpted" and dscr_target absent the
\* call fails; no schedule is built with a default target or another method.
C5_SculptedWithoutTargetFails ==
    (pc \in AfterMix \cup {"done"} /\ result.mode # "equity_only")
        => ~(p.amortization = "sculpted" /\ p.dscr_target = None)

\* the reserve window fits within the tenor
WindowFits == rsv.dsra_m <= p.tenor_years

\* C6 (as claimed): with a DSRA configured whose window fits within the tenor,
\* the funding and release entries of the returned dsra_cashflows sum to zero.
C6_DsraNetsToZero ==
    (DebtDone /\ UseDsra(rsv, agg.total_years) /\ WindowFits)
        => QSum(result.dsra_cashflows) = Zero

NonZero(s) == \E i \in 1..Len(s) : s[i] # Zero

\* C7: DSRA and receivables guarantee are mutually exclusive in every result
\* and while the layer is computed: never a nonzero dsra_cashflows entry
\* together with a nonzero fees_cashflows entry; the mechanism not selected
\* has zero cash effect; setting both is no error (the call completes).
C7_ReserveMutuallyExclusive ==
    /\ (pc \in {"dsra", "dscr"}) =>
          /\ ~(NonZero(dsra_cash) /\ NonZero(fees_cash))
          /\ (UseGuarantee(rsv) => ~NonZero(dsra_cash))
          /\ (~UseGuarantee(rsv) => ~NonZero(fees_cash))
    /\ DebtDone =>
          /\ ~(NonZero(result.dsra_cashflows) /\ NonZero(result.fees_cashflows))
          /\ (UseGuarantee(rsv) => ~NonZero(result.dsra_cashflows))
          /\ (~UseGuarantee(rsv) => ~NonZero(result.fees_cashflows))

\* C7 witness: both dsra_months and receivables_guarantee_months set, debt
\* service present, guarantee fees charged; the call completed.
C7_Witness ==
    /\ DebtDone
    /\ rsv.dsra_m > 0 /\ rsv.recv_m > 0
    /\ NonZero(result.debt_service)
    /\ NonZero(result.fees_cashflows)

\* C8: every DSCR entry is None exactly when that year's total debt service is
\* zero and CFADS[y] / debt_service_total[y] otherwise, on the equity-only path
\* too; a year without debt service is never reported as 0.
C8_DscrUndefinedIffNoService ==
    pc = "done" =>
        \A y \in 1..Len(result.dscr_series) :
            /\ (result.dscr_series[y] = None) <=> (result.debt_service[y] = Zero)
            /\ result.debt_service[y] # Zero =>
                  result.dscr_series[y] = QDiv(CfAt(cfads, y - 1), result.debt_service[y])

\* C8 witness: a result with a year without debt service (DSCR None) and a
\* year with debt service (DSCR defined).
C8_Witness ==
    /\ DebtDone
    /\ \E y \in 1..Len(result.dscr_series) :
          result.debt_service[y] = Zero /\ result.dscr_series[y] = None
    /\ \E y \in 1..Len(result.dscr_series) :
          QPos(result.debt_service[y]) /\ result.dscr_series[y] # None

\* C9 (as claimed): dscr_min is the minimum of the defined entries of the
\* returned dscr_series, and None exactly when no returned year has positive
\* debt service.
C9_DscrMinOfReturnedSeries ==
    DebtDone =>
        /\ result.dscr_min = MinDefined(result.dscr_series)
        /\ (result.dscr_min = None) <=>
              (\A y \in 1..Len(result.debt_service) : ~QPos(result.debt_service[y]))

-----------------------------------------------------------------------------
(* IRR computations: finance/irr.py, finance/metrics.py, adapters.py *)

RECURSIVE IPow(_, _)
IPow(a, n) == IF n = 0 THEN 1 ELSE a * IPow(a, n - 1)

\* npv of irr.py 13-25 and metrics.py 14-15 at the rate r with 1 + r = a/b > 0:
\* sum over t of cf[t] / (1+r)^t, for integer cash flows
Npv(cfs, a, b) ==
    LET N == Len(cfs) - 1
        RECURSIVE Terms(_)
        Terms(t) == IF t > N THEN 0
                    ELSE cfs[t + 1] * IPow(b, t) * IPow(a, N - t) + Terms(t + 1)
    IN  IF Len(cfs) = 0 THEN Zero ELSE Norm(Terms(0), IPow(a, N))

\* npv at a rate given as a rational r > -1
NpvAt(cfs, r) == Npv(cfs, r[1] + r[2], r[2])

Sign(x) == IF x[1] > 0 THEN 1 ELSE IF x[1] < 0 THEN -1 ELSE 0

\* Exact integers of any size, for the npv of the bisection, whose values
\* leave the 32-bit range: <<s, m>> with sign s in {-1, 0, 1} and magnitude m,
\* the digits in base Base, least significant first, without leading zeros.
Base == 16384

RECURSIVE NOf(_)
NOf(n) == IF n = 0 THEN <<>> ELSE <<n % Base>> \o NOf(n \div Base)

RECURSIVE NStrip(_)
NStrip(x) ==
    IF x # <<>> /\ x[Len(x)] = 0 THEN NStrip(SubSeq(x, 1, Len(x) - 1)) ELSE x

RECURSIVE NAddC(_, _, _)
NAddC(x, y, c) ==
    IF x = <<>> /\ y = <<>> THEN (IF c = 0 THEN <<>> ELSE <<c>>)
    ELSE LET a == IF x = <<>> THEN 0 ELSE Head(x)
             b == IF y = <<>> THEN 0 ELSE Head(y)
             s == a + b + c
         IN  <<s % Base>> \o NAddC(IF x = <<>> THEN x ELSE Tail(x),
                                   IF y = <<>> THEN y ELSE Tail(y), s \div Base)

NAdd(x, y) == NAddC(x, y, 0)

\* x - y for x >= y
RECURSIVE NSubB(_, _, _)
NSubB(x, y, b) ==
    IF x = <<>> THEN <<>>
    ELSE LET d == Head(x) - (IF y = <<>> THEN 0 ELSE Head(y)) - b
         IN  <<IF d < 0 THEN d + Base ELSE d>>
                \o NSubB(Tail(x), IF y = <<>> THEN y ELSE Tail(y), IF d < 0 THEN 1 ELSE 0)

NSub(x, y) == NStrip(NSubB(x, y, 0))

RECURSIVE NCmpAt(_, _, _)
NCmpAt(x, y, i) ==
    IF i = 0 THEN 0
    ELSE IF x[i] < y[i] THEN -1
    ELSE IF x[i] > y[i] THEN 1
    ELSE NCmpAt(x, y, i - 1)

\* -1, 0 or 1 as x <, =, > y
NCmp(x, y) ==
    IF Len(x) < Len(y) THEN -1
    ELSE IF Len(x) > Len(y) THEN 1
    ELSE NCmpAt(x, y, Len(x))

\* x * c + carry for one digit c
RECURSIVE NMulDigit(_, _, _)
NMulDigit(x, c, carry) ==
    IF x = <<>> THEN NOf(carry)
    ELSE LET q == Head(x) * c + carry
         IN  <<q % Base>> \o NMulDigit(Tail(x), c, q \div Base)

RECURSIVE NMul(_, _)
NMul(x, y) ==
    IF x = <<>> \/ y = <<>> THEN <<>>
    ELSE LET rest == NMul(x, Tail(y))
         IN  NStrip(NAdd(NMulDigit(x, Head(y), 0),
                         IF rest = <<>> THEN rest ELSE <<0>> \o rest))

ZOf(n) == <<IF n > 0 THEN 1 ELSE IF n < 0 THEN -1 ELSE 0, NOf(Abs(n))>>
ZNeg(x) == <<-x[1], x[2]>>
ZAbs(x) == <<Abs(x[1]), x[2]>>
ZAdd(x, y) ==
    IF x[1] = 0 THEN y
    ELSE IF y[1] = 0 THEN x
    ELSE IF x[1] = y[1] THEN <<x[1], NAdd(x[2], y[2])>>
    ELSE LET c == NCmp(x[2], y[2])
         IN  IF c = 0 THEN <<0, <<>> >>
             ELSE IF c > 0 THEN <<x[1], NSub(x[2], y[2])>>
             ELSE <<y[1], NSub(y[2], x[2])>>
ZSub(x, y) == ZAdd(x, ZNeg(y))
ZMul(x, y) == IF x[1] = 0 \/ y[1] = 0 THEN <<0, <<>> >> ELSE <<x[1] * y[1], NMul(x[2], y[2])>>
ZLt(x, y) == ZSub(x, y)[1] < 0

RECURSIVE ZPow(_, _)
ZPow(x, n) == IF n = 0 THEN ZOf(1) ELSE ZMul(x, ZPow(x, n - 1))

\* npv (irr.py 13-25) at the rate n/d > -1, as the fraction num/den, den > 0:
\* with a = n + d, the sum over t of cf[t] * d^t * a^(N-t), over a^N
BigNpv(cfs, n, d) ==
    LET N == Len(cfs) - 1
        a == ZAdd(n, d)
        RECURSIVE Terms(_)
        Terms(t) ==
            IF t > N THEN ZOf(0)
            ELSE ZAdd(ZMul(ZOf(cfs[t + 1]), ZMul(ZPow(d, t), ZPow(a, N - t))),
                      Terms(t + 1))
    IN  [num |-> Terms(0), den |-> IF N < 0 THEN ZOf(1) ELSE ZPow(a, N)]

\* f > 0, f < 0, f == 0.0 for f = num/den
FSign(f) == f.num[1]

IrrNone == [kind |-> "None"]
IrrRate(r) == [kind |-> "rate", rate |-> r]
\* the bisection loop, entered with the bracket [lo, hi]: it returns a rate
\* inside the bracket
IrrBracket(lo, hi) == [kind |-> "bisect", lo |-> lo, hi |-> hi]
IrrRaise(e) == [kind |-> "raise", exc |-> e]

\* search domain of _irr_local (line 41)
LocalLo == <<-9999, 10000>>
LocalHi == <<5, 1>>

\* a solver that bisects without testing the bracket and falls back on 0
IrrLocalGuessZero(cfs) ==
    IF Len(cfs) = 0 THEN IrrNone ELSE IrrRate(Zero)

\* _irr_local, irr.py 29-64
IrrLocal(cfs) ==
    LET f_lo == BigNpv(cfs, ZOf(LocalLo[1]), ZOf(LocalLo[2]))
        f_hi == BigNpv(cfs, ZOf(LocalHi[1]), ZOf(LocalHi[2]))
    IN  IF Len(cfs) = 0 THEN IrrNone
        ELSE IF \A i \in 1..Len(cfs) : cfs[i] = 0 THEN IrrRate(Zero)
        ELSE IF FSign(f_lo) = 0 THEN IrrRate(LocalLo)
        ELSE IF FSign(f_hi) = 0 THEN IrrRate(LocalHi)
        ELSE IF FSign(f_lo) = FSign(f_hi) THEN IrrNone
        ELSE IrrBracket(LocalLo, LocalHi)

\* irr, irr.py 67-82: numpy-financial when importable, else the local solver.
\* npf_outcome is what npf.irr did: "nan", "value" or "raise".
Irr(cfs, npf, npf_outcome) ==
    IF npf /\ npf_outcome = "nan" THEN IrrNone
    ELSE IF npf /\ npf_outcome = "value" THEN [kind |-> "npf_rate"]
    ELSE IrrLocal(cfs)

\* defaults of irr_bisection (metrics.py 7-8) and its fallback grid (line 21)
BisLo == <<-99, 100>>
BisHi == <<3, 2>>
Grid == << <<-9, 10>>, <<-1, 2>>, <<0, 1>>, <<1, 5>>, <<1, 2>>, <<1, 1>>, <<3, 2>> >>

\* the for/else of metrics.py 24-32 from index j on
RECURSIVE GridScan(_, _)
GridScan(cfs, j) ==
    IF j > Len(Grid) - 1 THEN IrrRate(Zero)
    ELSE IF Sign(NpvAt(cfs, Grid[j])) = 0 THEN IrrRate(Grid[j])
    ELSE IF Sign(NpvAt(cfs, Grid[j])) * Sign(NpvAt(cfs, Grid[j + 1])) < 0
         THEN IrrBracket(Grid[j], Grid[j + 1])
    ELSE GridScan(cfs, j + 1)

\* irr_bisection, metrics.py 5-44
IrrBisection(cfs) ==
    IF Sign(NpvAt(cfs, BisLo)) * Sign(NpvAt(cfs, BisHi)) > 0
    THEN GridScan(cfs, 1)
    ELSE IrrBracket(BisLo, BisHi)

\* parameters of apply_debt_layer (debt.py 185) and the keywords the adapter
\* passes (adapters.py 228-233)
DebtLayerParams == {"params", "annual_rows"}
AdapterKeywords == {"cfads", "revenue", "params", "capex_usd"}

\* equity IRR of run_irr_demo, adapters.py 188-246
RunIrrDemoEquityIrr(years, cap_mw, npf) ==
    IF years <= 0 \/ cap_mw <= 0 THEN IrrRate(Zero)
    ELSE IF ~(AdapterKeywords \subseteq DebtLayerParams) THEN IrrRaise("TypeError")
    \* debt_result carries no "equity_cf": the series defaults to []
    ELSE IrrRate(Zero)

CfIrrSet == {-2, -1, 0, 1, 2}

InitIrr ==
    /\ pc = "idle"
    /\ p = NoP
    /\ cfads = <<>>
    /\ tr = <<>>
    /\ obals = <<>>
    /\ sched = <<>>
    /\ year_index = 0
    /\ agg = NoAgg
    /\ rsv = NoRsv
    /\ dsra_cash = <<>>
    /\ fees_cash = <<>>
    /\ result = NoResult
    /\ irr = NoIrr
    /\ batch = NoBatch
    /\ caller = NoCaller

\* numpy-financial's irr yields a rate only for a root of the cash-flow
\* polynomial at a positive discount factor, which needs both signs among the
\* cash flows; otherwise it yields nan
HasSignChange(cfs) ==
    /\ \E i \in 1..Len(cfs) : cfs[i] > 0
    /\ \E i \in 1..Len(cfs) : cfs[i] < 0

DebtVars == <<pc, p, cfads, tr, obals, sched, year_index, agg, rsv, dsra_cash, fees_cash, result>>

\* a call of finance.irr.irr
CallIrr ==
    /\ irr.fn = "idle"
    /\ \E n \in 0..MaxCfLen, npf \in BOOLEAN, o \in {"nan", "value", "raise"} :
        \E cfs \in [1..n -> CfIrrSet] :
            /\ npf \/ o = "raise"
            /\ o = "value" => HasSignChange(cfs)
            /\ irr' = [fn |-> "irr", cfs |-> cfs, npf |-> npf, npf_outcome |-> o,
                       out |-> Irr(cfs, npf, o)]
    /\ UNCHANGED <<DebtVars, DriverVars>>

\* a call of finance.metrics.irr_bisection
CallIrrBisection ==
    /\ irr.fn = "idle"
    /\ \E n \in 0..MaxCfLen :
        \E cfs \in [1..n -> CfIrrSet] :
            irr' = [fn |-> "irr_bisection", cfs |-> cfs, out |-> IrrBisection(cfs)]
    /\ UNCHANGED <<DebtVars, DriverVars>>

\* a call of adapters.run_irr_demo
CallRunIrrDemo ==
    /\ irr.fn = "idle"
    /\ \E years \in 1..MaxLife, cap_mw \in {0, 1}, npf \in BOOLEAN :
        irr' = [fn |-> "run_irr_demo", years |-> years, cap_mw |-> cap_mw, npf |-> npf,
                out |-> RunIrrDemoEquityIrr(years, cap_mw, npf)]
    /\ UNCHANGED <<DebtVars, DriverVars>>

\* inputs of the cash-flow builders: the t0 argument, the per-row value (None
\* where the row lacks the key) and the balloon (None where absent)
T0Set == {FromInt(-30), Zero, FromInt(30)}
RowCfSet == {None, FromInt(-4), Zero, FromInt(10)}
BalloonSet == {None, Zero, Eps9, FromInt(5)}
RowSeqs == UNION {[1..n -> RowCfSet] : n \in 0..MaxCfLen}

\* row.get(key, 0.0) for every row
RowValues(rows) == [i \in 1..Len(rows) |-> IF rows[i] = None THEN Zero ELSE rows[i]]

\* build_project_cashflows, irr.py 86-93
BuildProjectCashflows(capex_t0_usd, rows) == <<capex_t0_usd>> \o RowValues(rows)

\* variant that charges the balloon to the first operating year
BuildEquityBalloonFirstYear(equity_t0_usd, rows, balloon_remaining) ==
    LET out == <<equity_t0_usd>> \o RowValues(rows)
        b == OrZero(balloon_remaining)
    IN  IF QLt(Eps9, b) /\ Len(out) > 1 THEN [out EXCEPT ![2] = QSub(@, b)] ELSE out

\* build_equity_cashflows, irr.py 96-111
BuildEquityCashflows(equity_t0_usd, rows, balloon_remaining) ==
    LET out == <<equity_t0_usd>> \o RowValues(rows)
        b == OrZero(balloon_remaining)
    IN  IF QLt(Eps9, b) /\ Len(out) > 1
        THEN [out EXCEPT ![Len(out)] = QSub(@, b)]
        ELSE out

\* a call of build_project_cashflows
CallBuildProject ==
    /\ irr.fn = "idle"
    /\ \E t0 \in T0Set, rows \in RowSeqs :
        irr' = [fn |-> "build_project_cashflows", t0 |-> t0, rows |-> rows,
                out |-> BuildProjectCashflows(t0, rows)]
    /\ UNCHANGED <<DebtVars, DriverVars>>

\* a call of build_equity_cashflows
CallBuildEquity ==
    /\ irr.fn = "idle"
    /\ \E t0 \in T0Set, rows \in RowSeqs, b \in BalloonSet :
        irr' = [fn |-> "build_equity_cashflows", t0 |-> t0, rows |-> rows, balloon |-> b,
                out |-> BuildEquityCashflows(t0, rows, b)]
    /\ UNCHANGED <<DebtVars, DriverVars>>

NextIrr ==
    \/ CallIrr
    \/ CallIrrBisection
    \/ CallRunIrrDemo
    \/ CallBuildProject
    \/ CallBuildEquity

SpecIrr == InitIrr /\ [][NextIrr]_vars

\* a non-empty series whose entries are all of one sign, not all zero: its NPV
\* has no root, so its IRR is undefined
OneSigned(cfs) ==
    /\ Len(cfs) > 0
    /\ \E i \in 1..Len(cfs) : cfs[i] # 0
    /\ \/ \A i \in 1..Len(cfs) : cfs[i] >= 0
       \/ \A i \in 1..Len(cfs) : cfs[i] <= 0

\* C10 (as claimed): every IRR computation of the repository reports a series
\* whose IRR is not bracketed or degenerate as None: irr and irr_bisection
\* return None on it, and the adapter's equity IRR neither raises nor is 0
\* where no IRR was computed.
C10_UndefinedIrrIsNone ==
    /\ (irr.fn \in {"irr", "irr_bisection"} /\ OneSigned(irr.cfs))
          => irr.out.kind = "None"
    /\ irr.fn = "run_irr_demo"
          => irr.out.kind # "raise" /\ irr.out # IrrRate(Zero)

-----------------------------------------------------------------------------
(* Inputs and limits of the bisection of _irr_local *)

\* the series of test_finance_irr_basic
TestSeries == <<-100, 60, 60>>

\* range(200) of irr.py 54
LoopLimit == 200

NoOut == [kind |-> "pending"]

\* a negative first element followed by inflows
NegThenInflows(cfs) ==
    /\ Len(cfs) >= 2
    /\ cfs[1] < 0
    /\ \A i \in 2..Len(cfs) : cfs[i] >= 0
    /\ \E i \in 2..Len(cfs) : cfs[i] > 0

AllZero(cfs) == Len(cfs) > 0 /\ \A i \in 1..Len(cfs) : cfs[i] = 0
AllPositive(cfs) == Len(cfs) > 0 /\ \A i \in 1..Len(cfs) : cfs[i] > 0

\* C12 (as claimed): irr applied to a non-empty series whose entries are all
\* zero returns exactly 0, a defined rate, in every build.
C12_AllZeroIsZero ==
    (irr.fn = "irr" /\ AllZero(irr.cfs)) => irr.out = IrrRate(Zero)

-----------------------------------------------------------------------------
(* _solve_mix as a function of total debt, caps and floor *)

\* cap and floor fractions, absent or given, beyond 1 included
MixFracSet == {None, Zero, Q(1, 4), Q(1, 2), Q(3, 4), FromInt(1), FromInt(2)}
MixDebtSet == {Zero, FromInt(12), FromInt(25)}

InitMix ==
    /\ pc = "mix_call"
    /\ p \in [mix : [lkr_max : MixFracSet, dfi_max : MixFracSet, usd_min : MixFracSet],
              debt_total : MixDebtSet]
    /\ cfads = <<>>
    /\ tr = <<>>
    /\ obals = <<>>
    /\ sched = <<>>
    /\ year_index = 0
    /\ agg = NoAgg
    /\ rsv = NoRsv
    /\ dsra_cash = <<>>
    /\ fees_cash = <<>>
    /\ result = NoResult
    /\ irr = NoIrr
    /\ batch = NoBatch
    /\ caller = NoCaller

\* a call of _solve_mix(p, debt_total)
CallSolveMix ==
    /\ pc = "mix_call"
    /\ \E rates \in RateSet, io \in 0..MaxIO :
        tr' = SolveMix(p.mix, rates, io, p.debt_total)
    /\ pc' = "mix_done"
    /\ UNCHANGED <<p, cfads, obals, sched, year_index, agg, rsv, dsra_cash, fees_cash,
                   result, irr, DriverVars>>

NextMix == CallSolveMix

SpecMix == InitMix /\ [][NextMix]_vars

\* C14: for any total debt >= 0, caps and floor >= 0, jointly infeasible ones
\* included, _solve_mix yields LKR, USD and DFI principals that are each >= 0
\* and sum to the total debt.
C14_MixNonNegativeSumsToDebt ==
    pc = "mix_done" =>
        /\ \A k \in TrNames : QLe(Zero, tr[k].principal)
        /\ QAdd(QAdd(tr["LKR"].principal, tr["USD"].principal), tr["DFI"].principal)
              = p.debt_total

\* C14 witness: positive caps with a floor above the total debt; both other
\* tranches were emptied and USD stays below its nominal minimum.
C14_Witness ==
    /\ pc = "mix_done"
    /\ QPos(p.debt_total)
    /\ QPos(OrZero(p.mix.lkr_max)) /\ QPos(OrZero(p.mix.dfi_max))
    /\ QLt(tr["USD"].principal, QMul(p.debt_total, OrZero(p.mix.usd_min)))
    /\ tr["LKR"].principal = Zero /\ tr["DFI"].principal = Zero
    /\ tr["USD"].principal = p.debt_total

\* C15 (as claimed): the first element of build_equity_cashflows is minus the
\* injection amount and the first element of build_project_cashflows is minus
\* CAPEX, followed by one element per annual row.
C15_StartsWithNegatedInjection ==
    irr.fn \in {"build_equity_cashflows", "build_project_cashflows"} =>
        /\ irr.out[1] = QNeg(irr.t0)
        /\ Len(irr.out) = Len(irr.rows) + 1

EquityCall == irr.fn = "build_equity_cashflows"

\* the balloon went in full to the last element and nowhere else
ChargedToFinalOnly ==
    /\ irr.out[1] = irr.t0
    /\ \A i \in 1..(Len(irr.rows) - 1) : irr.out[i + 1] = RowValues(irr.rows)[i]
    /\ QSub(QAdd(irr.t0, QSum(RowValues(irr.rows))), QSum(irr.out))
          = OrZero(irr.balloon)

\* C16 (as claimed): for any number of annual rows a positive balloon is charged
\* in full to the final period and to no other; the series total is t0 plus the
\* annual equity cash flows minus the balloon.
C16_BalloonChargedToFinalPeriod ==
    (EquityCall /\ QPos(OrZero(irr.balloon))) => ChargedToFinalOnly

\* C16 (amended): with at least one annual row and a balloon above 1e-9 the
\* balloon is charged in full to the last operating year and to no other
\* element; with no annual row, or a balloon of at most 1e-9 or absent, the
\* series is t0 followed by the annual values, with nothing charged.
C16_BalloonChargedWhenYearsExist ==
    EquityCall =>
        IF Len(irr.rows) >= 1 /\ QLt(Eps9, OrZero(irr.balloon))
        THEN ChargedToFinalOnly
        ELSE irr.out = <<irr.t0>> \o RowValues(irr.rows)

\* C16 witness: several annual rows and a balloon of 5, taken from the last
\* year only.
C16_Witness ==
    /\ EquityCall
    /\ Len(irr.rows) >= 2
    /\ irr.balloon = FromInt(5)
    /\ irr.out[Len(irr.out)] = QSub(RowValues(irr.rows)[Len(irr.rows)], FromInt(5))
    /\ irr.out[2] = RowValues(irr.rows)[1]

\* C17 (as claimed): every result, equity-only or with debt, carries
\* dscr_series, debt_service, interest_series, principal_series,
\* balloon_remaining, adjustments and notes, and each per-year series has
\* exactly lifetime_years entries whatever tenor_years is.
C17_ResultCarriesAllSeries ==
    pc = "done" =>
        /\ {"dscr_series", "debt_service", "interest_series", "principal_series",
            "balloon_remaining", "adjustments", "notes"} \subseteq DOMAIN result
        /\ \A f \in {"dscr_series", "debt_service", "interest_series", "principal_series",
                     "adjustments"} \cap DOMAIN result :
              Len(result[f]) = p.lifetime

\* the part of C17 about lengths: every per-year series present in a result
\* has exactly lifetime_years entries
C17_SeriesHaveLifetimeEntries ==
    pc = "done" =>
        \A f \in {"dscr_series", "debt_service", "interest_series", "principal_series",
                  "adjustments", "dsra_cashflows", "fees_cashflows"} \cap DOMAIN result :
            Len(result[f]) = p.lifetime

\* C18: in every tranche row built so far, and in the consolidated series of
\* every result, debt service equals interest plus principal exactly.
C18_ServiceIsInterestPlusPrincipal ==
    /\ pc \in AfterMix \cup {"done"} /\ result.mode # "equity_only" =>
          \A k \in TrNames : \A y \in 1..Len(sched[k]) :
              sched[k][y][3] = QAdd(sched[k][y][1], sched[k][y][2])
    /\ pc = "done" =>
          \A y \in 1..Len(result.debt_service) :
              result.debt_service[y]
                 = QAdd(result.interest_series[y], result.principal_series[y])

\* C18 witness: a result with a year that carries both interest and principal
\* from two tranches.
C18_Witness ==
    /\ DebtDone
    /\ \E y \in 1..Len(result.debt_service) :
          /\ QPos(result.interest_series[y])
          /\ QPos(result.principal_series[y])
          /\ QPos(sched["LKR"][y][2]) /\ QPos(sched["USD"][y][2])
          /\ QPos(sched["LKR"][y][1])

-----------------------------------------------------------------------------
(* Batch drivers: scenario_runner.run_dir and monte_carlo.run_monte_carlo *)

MaxBatch == 2

\* a scenario by what happens to it: valid, its parameters pass the strict
\* checks (no unknown key, numeric fields); eval_ok, its evaluation returns
\* rather than raises
ScenarioKinds == [valid : BOOLEAN, eval_ok : BOOLEAN]
BatchSeqs == UNION {[1..n -> ScenarioKinds] : n \in 0..MaxBatch}

\* _validate_params_dict, scenario_runner.py 192-196: the strict validator
\* raises (150-171), the permissive one never does (174-188)
ValidateRaises(mode, sc) == mode = "strict" /\ ~sc.valid

\* _try_dispatch, scenario_runner.py 209-252: an adapter that raises is
\* swallowed and the stub result is returned in its place
Dispatch(sc) == IF sc.eval_ok THEN "result" ELSE "stub"

\* run_dir called on a directory of scenarios, under the validation mode read
\* when the module was loaded
StartRunDir ==
    /\ batch.driver = "none"
    /\ \E mode \in {"strict", "permissive"}, scen \in BatchSeqs :
        batch' = [driver |-> "run_dir", mode |-> mode, scen |-> scen, i |-> 0,
                  recorded |-> <<>>, failed_count |-> 0, status |-> "running"]
    /\ UNCHANGED <<DebtVars, irr, caller>>

\* one scenario of the loop of run_dir (341-344): run_scenario validates and
\* dispatches (287-294), _write_results records; nothing catches an exception
RunDirScenario ==
    /\ batch.driver = "run_dir"
    /\ batch.status = "running"
    /\ batch.i < Len(batch.scen)
    /\ LET i == batch.i + 1
           sc == batch.scen[i]
       IN  batch' = IF ValidateRaises(batch.mode, sc)
                    THEN [batch EXCEPT !.i = i, !.status = "raised"]
                    ELSE [batch EXCEPT !.i = i,
                            !.recorded = Append(@, [scenario |-> i, kind |-> Dispatch(sc)])]
    /\ UNCHANGED <<DebtVars, irr, caller>>

\* run_dir returns out_paths (345)
RunDirReturn ==
    /\ batch.driver = "run_dir"
    /\ batch.status = "running"
    /\ batch.i = Len(batch.scen)
    /\ batch' = [batch EXCEPT !.status = "returned"]
    /\ UNCHANGED <<DebtVars, irr, caller>>

\* run_monte_carlo called with or without validate
StartMonteCarlo ==
    /\ batch.driver = "none"
    /\ \E mode \in {"validate", "no_validate"}, scen \in BatchSeqs :
        batch' = [driver |-> "run_monte_carlo", mode |-> mode, scen |-> scen, i |-> 0,
                  recorded |-> <<>>, failed_count |-> 0, status |-> "running"]
    /\ UNCHANGED <<DebtVars, irr, caller>>

\* one iteration of the loop of run_monte_carlo (90-137): a scenario that fails
\* validation is skipped with a warning, an exception is counted and skipped
MonteCarloScenario ==
    /\ batch.driver = "run_monte_carlo"
    /\ batch.status = "running"
    /\ batch.i < Len(batch.scen)
    /\ LET i == batch.i + 1
           sc == batch.scen[i]
       IN  batch' = IF batch.mode = "validate" /\ ~sc.valid
                    THEN [batch EXCEPT !.i = i]
                    ELSE IF ~sc.eval_ok
                    THEN [batch EXCEPT !.i = i, !.failed_count = @ + 1]
                    ELSE [batch EXCEPT !.i = i,
                            !.recorded = Append(@, [scenario |-> i, kind |-> "result"])]
    /\ UNCHANGED <<DebtVars, irr, caller>>

\* run_monte_carlo returns the data frame (139-151)
MonteCarloReturn ==
    /\ batch.driver = "run_monte_carlo"
    /\ batch.status = "running"
    /\ batch.i = Len(batch.scen)
    /\ batch' = [batch EXCEPT !.status = "returned"]
    /\ UNCHANGED <<DebtVars, irr, caller>>

NextBatch ==
    \/ StartRunDir
    \/ RunDirScenario
    \/ RunDirReturn
    \/ StartMonteCarlo
    \/ MonteCarloScenario
    \/ MonteCarloReturn

SpecBatch == InitIrr /\ [][NextBatch]_vars

\* every scenario that passes validation and evaluation has its result recorded
HealthyRecorded ==
    \A i \in 1..Len(batch.scen) :
        (batch.scen[i].valid /\ batch.scen[i].eval_ok)
            => \E j \in 1..Len(batch.recorded) : batch.recorded[j].scenario = i

\* C19 (as claimed): in a batch run by run_dir or run_monte_carlo a scenario
\* whose validation or evaluation fails does not halt the batch; the batch
\* returns and every other scenario has been evaluated and recorded.
C19_FailureDoesNotHaltBatch ==
    batch.driver # "none" =>
        /\ batch.status # "raised"
        /\ batch.status = "returned" => HealthyRecorded

\* the part of C19 that holds: run_monte_carlo, and run_dir under permissive
\* validation, always return with every healthy scenario recorded
C19_HoldsOutsideStrictRunDir ==
    (batch.driver = "run_monte_carlo" \/ (batch.driver = "run_dir" /\ batch.mode = "permissive"))
        => /\ batch.status # "raised"
           /\ batch.status = "returned" => HealthyRecorded

-----------------------------------------------------------------------------
(* Repeated calls of apply_debt_layer by one caller.  The caller owns the
   params dict and the annual_rows list of every scenario and passes them by
   reference; the call works on those objects, so that what it did to them
   is there when the call returns and when the scenario is evaluated again *)

MaxCalls == 3

\* a row of annual_rows; None stands for a key that is absent or holds None
Row(cfads_usd, equity_cf, revenue_usd) ==
    [cfads_usd |-> cfads_usd, equity_cf |-> equity_cf, revenue_usd |-> revenue_usd]

\* the (params, annual_rows) pairs the caller evaluates: an equity-only
\* scenario, a level one with an interest-only year and a DSRA, a sculpted one
\* under a receivables guarantee whose only row has no cfads_usd, and the level
\* one with a shorter tenor and more rows than lifetime years
PureArgs ==
    << [params |->
          [lifetime |-> 2, debt_ratio |-> None, tenor_years |-> 0,
           amortization |-> "level", dscr_target |-> None, capex |-> FromInt(24),
           mix |-> [lkr_max |-> None, dfi_max |-> None, usd_min |-> None],
           rates |-> [LKR |-> Zero, USD |-> Zero, DFI |-> Zero],
           interest_only_years |-> 0,
           reserve |-> [dsra_m |-> 0, recv_m |-> 0, fee_pct |-> None],
           min_dscr |-> None],
        annual_rows |-> << Row(FromInt(12), None, FromInt(20)) >>],
       [params |->
          [lifetime |-> 2, debt_ratio |-> Q(1, 2), tenor_years |-> 3,
           amortization |-> "level", dscr_target |-> None, capex |-> FromInt(24),
           mix |-> [lkr_max |-> Q(1, 2), dfi_max |-> Q(1, 4), usd_min |-> None],
           rates |-> [LKR |-> Q(1, 2), USD |-> Q(1, 4), DFI |-> Zero],
           interest_only_years |-> 1,
           reserve |-> [dsra_m |-> 6, recv_m |-> 0, fee_pct |-> Q(1, 10)],
           min_dscr |-> FromInt(2)],
        annual_rows |-> << Row(FromInt(12), FromInt(36), FromInt(20)),
                           Row(None, FromInt(36), FromInt(20)) >>],
       [params |->
          [lifetime |-> 2, debt_ratio |-> Q(1, 2), tenor_years |-> 2,
           amortization |-> "sculpted", dscr_target |-> Q(3, 2), capex |-> FromInt(24),
           mix |-> [lkr_max |-> None, dfi_max |-> None, usd_min |-> None],
           rates |-> [LKR |-> Q(1, 2), USD |-> Q(1, 4), DFI |-> Zero],
           interest_only_years |-> 0,
           reserve |-> [dsra_m |-> 0, recv_m |-> 12, fee_pct |-> Q(1, 10)],
           min_dscr |-> None],
        annual_rows |-> << Row(None, FromInt(36), FromInt(20)) >>],
       [params |->
          [lifetime |-> 2, debt_ratio |-> Q(1, 2), tenor_years |-> 2,
           amortization |-> "level", dscr_target |-> None, capex |-> FromInt(24),
           mix |-> [lkr_max |-> Q(1, 2), dfi_max |-> Q(1, 4), usd_min |-> None],
           rates |-> [LKR |-> Q(1, 2), USD |-> Q(1, 4), DFI |-> Zero],
           interest_only_years |-> 1,
           reserve |-> [dsra_m |-> 6, recv_m |-> 0, fee_pct |-> Q(1, 10)],
           min_dscr |-> FromInt(2)],
        annual_rows |-> << Row(FromInt(12), None, None),
                           Row(None, None, FromInt(20)),
                           Row(FromInt(36), FromInt(12), FromInt(20)) >>] >>

\* the caller before its first call: its objects as it built them, nothing
\* evaluated, no frame of apply_debt_layer
InitPure ==
    /\ pc = "call"
    /\ p = NoP
    /\ cfads = <<>>
    /\ tr = <<>>
    /\ obals = <<>>
    /\ sched = <<>>
    /\ year_index = 0
    /\ agg = NoAgg
    /\ rsv = NoRsv
    /\ dsra_cash = <<>>
    /\ fees_cash = <<>>
    /\ result = NoResult
    /\ irr = NoIrr
    /\ batch = NoBatch
    /\ caller = [calls |-> 0, at |-> "idle", cur |-> 0, order |-> <<>>,
                 args |-> PureArgs,
                 seen |-> [s \in 1..Len(PureArgs) |-> NoResult]]

\* the params dict and the annual_rows list the call in progress was given
Params == caller.args[caller.cur].params
AnnualRows == caller.args[caller.cur].annual_rows

\* variant of lines 220-223 that keeps the value it fell back on in the row,
\* as row.setdefault("cfads_usd", ...) would
RowCfadsStored(row) ==
    LET v == IF row.cfads_usd = None THEN row.equity_cf ELSE row.cfads_usd
    IN  [v |-> OrZero(v), row |-> [row EXCEPT !.cfads_usd = OrZero(v)]]

\* lines 220-223 on one row: v = row.get("cfads_usd"), row.get("equity_cf", 0.0)
\* if that is None, float(v or 0.0); dict.get adds no key, so the row is left
\* as it was
RowCfads(row) ==
    LET v == IF row.cfads_usd = None THEN row.equity_cf ELSE row.cfads_usd
    IN  [v |-> OrZero(v), row |-> row]

\* line 262 on one row: float(row.get("revenue_usd", 0.0) or 0.0)
RowRevenue(row) == [v |-> OrZero(row.revenue_usd), row |-> row]

\* the loop of 219-223 over annual_rows[:lifetime]: the values read, and the
\* list with its rows as the reads left them (the slice copies the list, not
\* the rows)
ReadCfads(rows, lifetime) ==
    [values |-> [i \in 1..Min2(lifetime, Len(rows)) |-> RowCfads(rows[i]).v],
     rows |-> [i \in 1..Len(rows) |->
                 IF i <= lifetime THEN RowCfads(rows[i]).row ELSE rows[i]]]

\* the comprehension of 262 over annual_rows[:total_years], likewise
ReadRevenues(rows, total_years) ==
    [values |-> [i \in 1..Min2(total_years, Len(rows)) |-> RowRevenue(rows[i]).v],
     rows |-> [i \in 1..Len(rows) |->
                 IF i <= total_years THEN RowRevenue(rows[i]).row ELSE rows[i]]]

\* the caller calls apply_debt_layer(params, annual_rows) on one scenario
PureCall ==
    /\ pc = "call"
    /\ caller.at = "idle"
    /\ caller.calls < MaxCalls
    /\ \E s \in 1..Len(PureArgs) :
        caller' = [caller EXCEPT !.calls = @ + 1, !.at = "in_call", !.cur = s,
                                 !.order = Append(@, s)]
    /\ UNCHANGED <<DebtVars, irr, batch>>

\* 194-212: _get only reads params
PureEnterEquityOnly ==
    /\ caller.at = "in_call"
    /\ pc = "call"
    /\ EnterEquityOnlyWith(Params.lifetime, Params.debt_ratio, Params.tenor_years)
    /\ UNCHANGED caller

\* 194-226: params read, the rows read into the new list cfads, which line 226
\* then pads in place
PureEnterDebt ==
    /\ caller.at = "in_call"
    /\ pc = "call"
    /\ LET rd == ReadCfads(AnnualRows, Params.lifetime)
       IN  /\ EnterDebtWith(Params.lifetime, Params.debt_ratio, Params.tenor_years,
                            Params.amortization, Params.dscr_target, Params.capex,
                            rd.values)
           /\ caller' = [caller EXCEPT !.args[caller.cur].annual_rows = rd.rows]

\* 228-233: _solve_mix only reads params and builds new Tranche objects
PureTrancheMix ==
    /\ caller.at = "in_call"
    /\ pc = "mix"
    /\ TrancheMixWith(Params.mix, Params.rates, Params.interest_only_years)
    /\ UNCHANGED caller

\* the schedule constructors and the aggregation work on the call's own lists
PureIOYear == caller.at = "in_call" /\ IOYear
PureAnnuityYear == caller.at = "in_call" /\ AnnuityYear
PureSculptedYear == caller.at = "in_call" /\ SculptedYear
PureAggregate == caller.at = "in_call" /\ Aggregate

\* 253-272: params read, the rows read into the new list revenues
PureReserveSelect ==
    /\ caller.at = "in_call"
    /\ pc = "reserve"
    /\ LET rd == ReadRevenues(AnnualRows, agg.total_years)
       IN  /\ ReserveSelectWith(Params.reserve, rd.values)
           /\ caller' = [caller EXCEPT !.args[caller.cur].annual_rows = rd.rows]

PureDsraYear == caller.at = "in_call" /\ DsraYear
PureDsraDone == caller.at = "in_call" /\ DsraDone

\* 285-322: _get only reads params
PureFinish ==
    /\ caller.at = "in_call"
    /\ pc = "dscr"
    /\ FinishWith(Params.min_dscr)
    /\ UNCHANGED caller

\* the call returns (200-212 or 308-322): the caller keeps the first result it
\* got for the scenario, and the frame of the call, which held every local, is
\* gone; debt.py assigns no module-level name, so nothing else is left
PureReturn ==
    /\ pc = "done"
    /\ caller.at = "in_call"
    /\ caller' = [caller EXCEPT !.at = "idle",
                    !.seen[caller.cur] = IF @ = NoResult THEN result ELSE @]
    /\ pc' = "call"
    /\ p' = NoP
    /\ cfads' = <<>>
    /\ tr' = <<>>
    /\ obals' = <<>>
    /\ sched' = <<>>
    /\ year_index' = 0
    /\ agg' = NoAgg
    /\ rsv' = NoRsv
    /\ dsra_cash' = <<>>
    /\ fees_cash' = <<>>
    /\ result' = NoResult
    /\ UNCHANGED <<irr, batch>>

NextPure ==
    \/ PureCall
    \/ PureEnterEquityOnly
    \/ PureEnterDebt
    \/ PureTrancheMix
    \/ PureIOYear
    \/ PureAnnuityYear
    \/ PureSculptedYear
    \/ PureAggregate
    \/ PureReserveSelect
    \/ PureDsraYear
    \/ PureDsraDone
    \/ PureFinish
    \/ PureReturn

SpecPure == InitPure /\ [][NextPure]_vars

\* a call has ended and not yet returned to the caller
CallEnded == caller.at = "in_call" /\ pc = "done"

\* C20: apply_debt_layer is a pure function of its arguments: while and after
\* it runs, the params and annual_rows objects of every scenario hold what the
\* caller put in them, and a scenario evaluated again returns the result it
\* returned the first time, whatever scenarios were evaluated before or in
\* between.
C20_PureFunctionOfArguments ==
    caller.calls > 0 =>
        /\ caller.args = PureArgs
        /\ (CallEnded /\ caller.seen[caller.cur] # NoResult)
                => result = caller.seen[caller.cur]

\* a debt scenario whose row has no cfads_usd, so that the call fell back on
\* equity_cf, is evaluated, then another one, then the first again
C20_Witness ==
    /\ CallEnded
    /\ result.mode = "debt_applied"
    /\ \E i \in 1..Min2(Params.lifetime, Len(AnnualRows)) :
            AnnualRows[i].cfads_usd = None /\ AnnualRows[i].equity_cf # None
    /\ Len(caller.order) = 3
    /\ caller.order[1] = caller.order[3]
    /\ caller.order[2] # caller.order[1]
    /\ caller.seen[caller.order[2]] # NoResult
    /\ caller.seen[caller.order[2]].mode = "debt_applied"
    /\ caller.seen[caller.cur] = result

-----------------------------------------------------------------------------
(* Validation mode: cli.main and the module state of scenario_runner *)

\* VALIDATION_MODE in the environment: unset, or one of the two values
EnvModes == {"", "strict", "permissive"}
CliFlags == {"--strict", "--relaxed", "none"}

\* scenario_runner.py 31-33: the mode a read of the environment gives
EffectiveMode(env, db13_strict) ==
    IF env # "" THEN env
    ELSE IF db13_strict THEN "strict" ELSE "permissive"

\* cli.py 53-57: the environment after the flags are wired
EnvAfterFlag(env, flag) ==
    IF flag = "--strict" THEN "strict"
    ELSE IF flag = "--relaxed" THEN ""
    ELSE env

\* `from .scenario_runner import run_dir` (cli.py 9, the test's line 7):
\* scenario_runner is executed and _VALIDATION_MODE assigned (31-33)
LoadRunner ==
    /\ batch.driver = "none"
    /\ \E env \in EnvModes, db13 \in BOOLEAN :
        batch' = [driver |-> "loaded", env |-> env, db13 |-> db13,
                  mode |-> EffectiveMode(env, db13)]
    /\ UNCHANGED <<DebtVars, irr, caller>>

\* cli.main (23-82): the flags set or unset VALIDATION_MODE, then run_dir is
\* called with require_annual, a keyword run_dir (331-336) does not take: the
\* call raises TypeError before any scenario is validated
CliMain ==
    /\ batch.driver = "loaded"
    /\ \E flag \in CliFlags :
        batch' = [driver |-> "cli", flag |-> flag,
                  env |-> EnvAfterFlag(batch.env, flag), db13 |-> batch.db13,
                  mode |-> batch.mode, status |-> "call_failed"]
    /\ UNCHANGED <<DebtVars, irr, caller>>

\* VALIDATION_MODE set or unset before the run (the test's monkeypatch.setenv,
\* line 26), then run_dir called: it validates under _VALIDATION_MODE
SetEnvRunDir ==
    /\ batch.driver = "loaded"
    /\ \E env \in EnvModes, scen \in BatchSeqs :
        batch' = [driver |-> "run_dir", env |-> env, db13 |-> batch.db13,
                  mode |-> batch.mode, scen |-> scen, i |-> 0,
                  recorded |-> <<>>, failed_count |-> 0, status |-> "running"]
    /\ UNCHANGED <<DebtVars, irr, caller>>

NextCli ==
    \/ LoadRunner
    \/ CliMain
    \/ SetEnvRunDir
    \/ RunDirScenario
    \/ RunDirReturn

SpecCli == InitIrr /\ [][NextCli]_vars

\* C21: a run started by the CLI reaches validation, and the validation mode
\* in force while run_dir validates is the one the flag, or VALIDATION_MODE
\* set before the run, selects, not the one present when the modules were
\* loaded.
C21_ModeInForceIsSelected ==
    /\ batch.driver = "cli" => batch.status # "call_failed"
    /\ batch.driver = "run_dir" => batch.mode = EffectiveMode(batch.env, batch.db13)

-----------------------------------------------------------------------------
(* Binary64 arithmetic, as Python's float computes the level-annuity schedule.
   A float is [s, m, e], the value s * m * 2^e with sign s and a 53-bit
   significand 2^52 <= m < 2^53 held as a natural number in base Base; zero is
   DZero.  Every operation is the exact result rounded to nearest, ties to
   even.  Exponent range and signed zeros are left out: the amounts and rates
   of a schedule stay far from both.  The operations are functions, which
   take their arguments by value. *)

NatSeq == Seq(Nat)
DoubleSet == [s : {-1, 0, 1}, m : NatSeq, e : Int]

\* 2^k, thirteen bits at a time, and the powers in use kept as a table
RECURSIVE NTwoUp(_)
NTwoUp(k) == IF k <= 13 THEN <<IPow(2, k)>> ELSE NMul(NTwoUp(k - 13), <<8192>>)
MinExp == -128
MaxExp == 128
TwoTable == [k \in 0..(2 * (MaxExp - MinExp)) |-> NTwoUp(k)]
NTwo(k) == TwoTable[k]
Two52 == NTwo(52)
Two53 == NTwo(53)

DZero == [s |-> 0, m |-> <<>>, e |-> 0]

\* n / d >= 2^52 * 2^e
DAtLeast(n, d, e) ==
    NCmp(NMul(n, NTwo(Max2(-e, 0))), NMul(NMul(d, Two52), NTwo(Max2(e, 0)))) >= 0

\* the number of bits of x > 0 (Base is 2^14)
RECURSIVE Bits(_)
Bits(c) == IF c = 0 THEN 0 ELSE 1 + Bits(c \div 2)
BitLen(x) == 14 * (Len(x) - 1) + Bits(x[Len(x)])

\* the exponent e with 2^52 <= n / (d * 2^e) < 2^53
DExp(n, d) ==
    LET e == BitLen(n) - BitLen(d) - 52
    IN  IF DAtLeast(n, d, e) THEN e ELSE e - 1

\* x * Base^i
NShift(x, i) == IF x = <<>> THEN x ELSE [j \in 1..i |-> 0] \o x

\* the largest digit c, lo <= c <= hi, with d * c <= r
NDigitF[r \in NatSeq, d \in NatSeq, lo \in Nat, hi \in Nat] ==
    IF lo = hi THEN lo
    ELSE IF NCmp(NMulDigit(d, (lo + hi + 1) \div 2, 0), r) <= 0
         THEN NDigitF[r, d, (lo + hi + 1) \div 2, hi]
         ELSE NDigitF[r, d, lo, (lo + hi + 1) \div 2 - 1]
NDigit(r, d, lo, hi) == NDigitF[r, d, lo, hi]

\* long division of r by d from digit i down: c is the quotient's digit i and
\* acc its digits above i
NDivModF[r \in NatSeq, d \in NatSeq, i \in Nat, acc \in NatSeq, c \in Nat] ==
    LET r1 == IF c = 0 THEN r ELSE NSub(r, NMulDigit(NShift(d, i), c, 0))
    IN  IF i = 0 THEN [q |-> <<c>> \o acc, r |-> r1]
        ELSE NDivModF[r1, d, i - 1, <<c>> \o acc,
                      NDigit(r1, NShift(d, i - 1), 0, Base - 1)]

\* quotient and remainder of r by d, the quotient having i + 1 digits
NDivMod(r, d, i) == NDivModF[r, d, i, <<>>, NDigit(r, NShift(d, i), 0, Base - 1)]

\* quotient and remainder of n * 2^(-e) by d, or of n by d * 2^e
ScaledQuot[nn \in NatSeq, dd \in NatSeq] == [qr |-> NDivMod(nn, dd, 3), dd |-> dd]
Scaled[n \in NatSeq, d \in NatSeq, e \in Int] ==
    ScaledQuot[NMul(n, NTwo(Max2(-e, 0))), NMul(d, NTwo(Max2(e, 0)))]

\* the quotient rounded to nearest, ties to even
RoundQuot[s \in {-1, 1}, x \in [qr : [q : NatSeq, r : NatSeq], dd : NatSeq], e \in Int] ==
    LET c == NCmp(NAdd(x.qr.r, x.qr.r), x.dd)
        up == c > 0 \/ (c = 0 /\ x.qr.q[1] % 2 = 1)
        m == IF up THEN NAdd(x.qr.q, <<1>>) ELSE x.qr.q
    IN  IF NCmp(m, Two53) = 0
        THEN [s |-> s, m |-> Two52, e |-> e + 1]
        ELSE [s |-> s, m |-> m, e |-> e]
DRoundAt[s \in {-1, 1}, n \in NatSeq, d \in NatSeq, e0 \in Int, e \in Int] ==
    RoundQuot[s, Scaled[n, d, e], e + e0]
DRoundF[s \in {-1, 0, 1}, n \in NatSeq, d \in NatSeq, e0 \in Int] ==
    IF s = 0 \/ n = <<>> THEN DZero ELSE DRoundAt[s, n, d, e0, DExp(n, d)]

\* s * (n / d) * 2^e0 rounded to nearest, ties to even
DRound(s, n, d, e0) == DRoundF[s, n, d, e0]

\* float(n / d) for a literal n / d
DOfQ(x) == DRound(Sign(x), NOf(Abs(x[1])), NOf(x[2]), 0)
DOne == DOfQ(FromInt(1))

\* x as the integer x * 2^(-e) for an exponent e at most x.e
DExact(x, e) == IF x.s = 0 THEN ZOf(0) ELSE <<x.s, NMul(x.m, NTwo(x.e - e))>>
DMinExp(x, y) ==
    IF x.s = 0 THEN y.e ELSE IF y.s = 0 THEN x.e ELSE Min2(x.e, y.e)

DNeg(x) == [x EXCEPT !.s = -@]
DAddF[x \in DoubleSet, y \in DoubleSet] ==
    LET e == DMinExp(x, y)
        z == ZAdd(DExact(x, e), DExact(y, e))
    IN  DRound(z[1], z[2], <<1>>, e)
DAdd(x, y) == DAddF[x, y]
DSub(x, y) == DAdd(x, DNeg(y))
DMulF[x \in DoubleSet, y \in DoubleSet] ==
    IF x.s = 0 \/ y.s = 0 THEN DZero
    ELSE DRound(x.s * y.s, NMul(x.m, y.m), <<1>>, x.e + y.e)
DMul(x, y) == DMulF[x, y]
DDivF[x \in DoubleSet, y \in DoubleSet] ==
    IF x.s = 0 THEN DZero ELSE DRound(x.s * y.s, x.m, y.m, x.e - y.e)
DDiv(x, y) == DDivF[x, y]
\* x ** n where the power is a float (every platform's pow returns it then)
DPowF[x \in DoubleSet, n \in Nat] ==
    IF n = 0 THEN DOne
    ELSE IF x.s = 0 THEN DZero
    ELSE DRound(IF n % 2 = 0 THEN 1 ELSE x.s, ZPow(<<1, x.m>>, n)[2], <<1>>, x.e * n)
DPow(x, n) == DPowF[x, n]

\* the quotient cut off, and the float above it when there is a remainder
FaithfulQuot[s \in {-1, 1}, x \in [qr : [q : NatSeq, r : NatSeq], dd : NatSeq], e \in Int] ==
    {[s |-> s, m |-> x.qr.q, e |-> e]} \cup
    (IF x.qr.r = <<>> THEN {}
     ELSE {IF NCmp(NAdd(x.qr.q, <<1>>), Two53) = 0
           THEN [s |-> s, m |-> Two52, e |-> e + 1]
           ELSE [s |-> s, m |-> NAdd(x.qr.q, <<1>>), e |-> e]})
DFaithfulAt[s \in {-1, 1}, n \in NatSeq, d \in NatSeq, e0 \in Int, e \in Int] ==
    FaithfulQuot[s, Scaled[n, d, e], e + e0]
DFaithfulF[s \in {-1, 0, 1}, n \in NatSeq, d \in NatSeq, e0 \in Int] ==
    IF s = 0 \/ n = <<>> THEN {DZero} ELSE DFaithfulAt[s, n, d, e0, DExp(n, d)]

\* the binary64 neighbours of s * (n / d) * 2^e0: the value itself when it is
\* representable, else the nearest float below and the nearest float above
DFaithful(s, n, d, e0) == DFaithfulF[s, n, d, e0]

\* x ** n as the C library's pow returns it: exact when the power is a float,
\* else either neighbour of the power (pow is accurate to less than one unit
\* in the last place, and is not correctly rounded on every platform)
DPowSetF[x \in DoubleSet, n \in Nat] ==
    IF n = 0 THEN {DOne}
    ELSE IF x.s = 0 THEN {DZero}
    ELSE DFaithful(IF n % 2 = 0 THEN 1 ELSE x.s, ZPow(<<1, x.m>>, n)[2], <<1>>, x.e * n)
DPowSet(x, n) == DPowSetF[x, n]

DLtF[x \in DoubleSet, y \in DoubleSet] ==
    LET e == DMinExp(x, y) IN ZLt(DExact(x, e), DExact(y, e))
DLt(x, y) == DLtF[x, y]
DMaxF[x \in DoubleSet, y \in DoubleSet] == IF DLt(x, y) THEN y ELSE x
DMax(x, y) == DMaxF[x, y]

\* _pmt, debt.py 56-60
DPmtF[rate \in DoubleSet, nper \in Nat, pv \in DoubleSet] ==
    IF rate.s = 0 THEN DDiv(pv, DOfQ(FromInt(nper)))
    ELSE LET x == DPow(DAdd(DOne, rate), nper)
         IN  DDiv(DMul(pv, DMul(rate, x)), DSub(x, DOne))
DPmt(rate, nper, pv) == DPmtF[rate, nper, pv]

-----------------------------------------------------------------------------
(* _annuity_schedule (debt.py 120-138) on one tranche, in float arithmetic *)

AnnPrincipalSet == {Zero, FromInt(6), FromInt(12), FromInt(100)}
AnnRateSet == {Zero, Q(1, 4), Q(1, 2)}

\* a call _annuity_schedule(tr, amort_years): bal = tr.principal, rows = []
InitAnn ==
    /\ pc = "ann"
    /\ \E principal \in AnnPrincipalSet, rate \in AnnRateSet, io \in 0..MaxIO :
        /\ tr = [rate |-> DOfQ(rate), principal |-> DOfQ(principal), years_io |-> io]
        /\ obals = DOfQ(principal)
    /\ p \in [amort_years : 0..MaxTenor]
    /\ sched = <<>>
    /\ year_index = 0
    /\ cfads = <<>>
    /\ agg = NoAgg
    /\ rsv = NoRsv
    /\ dsra_cash = <<>>
    /\ fees_cash = <<>>
    /\ result = NoResult
    /\ irr = NoIrr
    /\ batch = NoBatch
    /\ caller = NoCaller

\* an interest-only year (126-129)
AnnIOYear ==
    /\ pc = "ann"
    /\ year_index < tr.years_io
    /\ LET interest == DMul(obals, tr.rate)
       IN  sched' = Append(sched, <<interest, DZero, interest>>)
    /\ year_index' = year_index + 1
    /\ UNCHANGED <<pc, p, cfads, tr, obals, agg, rsv, dsra_cash, fees_cash, result,
                   irr, DriverVars>>

\* an amortization year (131-137): pmt is the payment on the opening balance
AnnAmortYear ==
    /\ pc = "ann"
    /\ year_index >= tr.years_io
    /\ year_index < tr.years_io + p.amort_years
    /\ \E pmt \in {DPmt(tr.rate, p.amort_years, tr.principal)} :
       \E interest \in {DMul(obals, tr.rate)} :
       \E principal \in {DMax(DZero, DSub(pmt, interest))} :
           /\ obals' = DMax(DZero, DSub(obals, principal))
           /\ sched' = Append(sched, <<interest, principal, DAdd(interest, principal)>>)
    /\ year_index' = year_index + 1
    /\ UNCHANGED <<pc, p, cfads, tr, agg, rsv, dsra_cash, fees_cash, result,
                   irr, DriverVars>>

\* return rows (138)
AnnReturn ==
    /\ pc = "ann"
    /\ year_index = tr.years_io + p.amort_years
    /\ pc' = "ann_done"
    /\ UNCHANGED <<p, cfads, tr, obals, sched, year_index, agg, rsv, dsra_cash,
                   fees_cash, result, irr, DriverVars>>

NextAnn ==
    \/ AnnIOYear
    \/ AnnAmortYear
    \/ AnnReturn

SpecAnn == InitAnn /\ [][NextAnn]_vars

\* the balance the tranche owes at the start of row y
RECURSIVE AnnBalAt(_)
AnnBalAt(y) ==
    IF y <= 1 THEN tr.principal
    ELSE DMax(DZero, DSub(AnnBalAt(y - 1), sched[y - 1][2]))

\* the principal of all rows, added without rounding, in units of 2^MinExp
RECURSIVE AnnPrincipalPaid(_)
AnnPrincipalPaid(y) ==
    IF y = 0 THEN ZOf(0) ELSE ZAdd(AnnPrincipalPaid(y - 1), DExact(sched[y][2], MinExp))

\* C24 (as claimed): in a level-annuity schedule each amortizing year's
\* principal lies in [0, outstanding balance at the start of that year], and
\* the total principal repaid never exceeds the original principal.
C24_PrincipalWithinBalance ==
    pc \in {"ann", "ann_done"} =>
        /\ \A y \in 1..Len(sched) :
              /\ ~DLt(sched[y][2], DZero)
              /\ ~DLt(AnnBalAt(y), sched[y][2])
        /\ ~ZLt(DExact(tr.principal, MinExp), AnnPrincipalPaid(Len(sched)))

\* the lower clip, which the code applies
C24_PrincipalNonNegative ==
    pc \in {"ann", "ann_done"} =>
        \A y \in 1..Len(sched) : ~DLt(sched[y][2], DZero)

-----------------------------------------------------------------------------
(* Sculpted allocation *)

SculptedBuilt == pc \in AfterMix /\ UseSculpted(p)

\* total outstanding balance and total interest at the start of year y
TotalBalAt(y) == QSum([i \in 1..3 |-> BalAtStart(Tranches[i], y)])
TotalInterestAt(y) ==
    QSum([i \in 1..3 |-> QMul(BalAtStart(Tranches[i], y), tr[Tranches[i]].rate)])

\* max(0, CFADS[y] / dscr_target - total interest of year y)
TargetPrincipalAt(y) ==
    QMax(Zero, QSub(QDiv(CfAt(cfads, y - 1), p.dscr_target), TotalInterestAt(y)))

\* min(balance_k, target_total_principal x balance_k / sum of all balances)
ProRataShare(k, y) ==
    IF TotalBalAt(y) = Zero THEN Zero
    ELSE QMin(BalAtStart(k, y),
              QDiv(QMul(TargetPrincipalAt(y), BalAtStart(k, y)), TotalBalAt(y)))

\* C25: in each amortizing year of a sculpted schedule tranche k's principal is
\* min(balance_k, target_total_principal x balance_k / sum of all balances),
\* balances taken at the start of that year, with target_total_principal =
\* max(0, CFADS[y] / dscr_target - total interest of that year).
C25_PrincipalProRataByBalance ==
    SculptedBuilt =>
        \A k \in TrNames : \A y \in 1..Len(sched[k]) :
            y > IoYears(tr) => sched[k][y][2] = ProRataShare(k, y)

\* C25 witness: a second amortizing year in which two tranches, both partly
\* repaid the year before, are allocated principal, one of them capped at its
\* balance or both below it
C25_Witness ==
    /\ SculptedBuilt
    /\ Len(sched["USD"]) >= IoYears(tr) + 2
    /\ LET y == IoYears(tr) + 2 IN
        /\ QPos(sched["LKR"][y][2]) /\ QPos(sched["USD"][y][2])
        /\ QLt(BalAtStart("LKR", y), tr["LKR"].principal)
        /\ QLt(BalAtStart("USD", y), tr["USD"].principal)
        /\ sched["LKR"][y][2] = ProRataShare("LKR", y)

\* tranche k's share of the debt outstanding at the start of year y is its
\* share of the original principal (cross-multiplied: a total of zero has no
\* shares)
ShareKept(k, y) ==
    QMul(BalAtStart(k, y), TotalBalAt(1)) = QMul(tr[k].principal, TotalBalAt(y))

\* C29 in exact arithmetic: in a sculpted schedule every year scales all
\* balances by one factor, so each tranche's share of the outstanding debt
\* equals its share of the original principal at the start and at the end of
\* every year, and the tranches with positive principal reach a zero balance
\* in the same year.
C29_SharesStayProportional ==
    SculptedBuilt =>
        \A k \in TrNames : \A y \in 1..Len(sched[k]) :
            /\ ShareKept(k, y) /\ ShareKept(k, y + 1)
            /\ QMul(BalAtStart(k, y + 1), TotalBalAt(y)) =
                   QMul(BalAtStart(k, y), TotalBalAt(y + 1))
            /\ \A j \in TrNames :
                 (QPos(tr[k].principal) /\ QPos(tr[j].principal)) =>
                     (BalAtStart(k, y + 1) = Zero <=> BalAtStart(j, y + 1) = Zero)

-----------------------------------------------------------------------------
(* _sculpted_schedule (debt.py 141-179) in float arithmetic *)

\* principals (LKR, USD, DFI), rates and CFADS of the calls
SculptPrincipalSet ==
    { <<FromInt(3), FromInt(6), FromInt(3)>>, <<Zero, FromInt(6), FromInt(6)>>,
      <<Q(1, 10), Q(3, 10), Q(5, 2)>>, <<Q(1, 10), Q(4, 10), Q(24, 10)>> }
SculptRateSet == { <<Zero, Zero, Zero>>, <<Q(1, 2), Q(1, 4), Zero>> }
SculptCfSet == {Zero, Q(435, 100), FromInt(18)}

DMinF[x \in DoubleSet, y \in DoubleSet] == IF DLt(y, x) THEN y ELSE x
DMin(x, y) == DMinF[x, y]
\* sum(values) over the tranches in dict order
DSum3(f) == DAdd(DAdd(f[Tranches[1]], f[Tranches[2]]), f[Tranches[3]])

\* a call _sculpted_schedule(tranches, amort_years, cfads, 1.5): lines 146-150
InitSculptFloat ==
    /\ pc = "sculpt"
    /\ \E pr \in SculptPrincipalSet, rt \in SculptRateSet, io \in 0..MaxIO :
        /\ tr = [k \in TrNames |->
                   LET i == CHOOSE j \in 1..3 : Tranches[j] = k
                   IN  [rate |-> DOfQ(rt[i]), principal |-> DOfQ(pr[i]), years_io |-> io]]
        /\ obals = [k \in TrNames |->
                      DOfQ(pr[CHOOSE j \in 1..3 : Tranches[j] = k])]
    /\ \E amort \in 0..2 : p = [amort_years |-> amort, dscr_target |-> DOfQ(Q(3, 2))]
    /\ \E c1 \in SculptCfSet, c2 \in SculptCfSet : cfads = <<DOfQ(c1), DOfQ(c2)>>
    /\ sched = [k \in TrNames |-> <<>>]
    /\ year_index = 0
    /\ agg = NoAgg
    /\ rsv = NoRsv
    /\ dsra_cash = <<>>
    /\ fees_cash = <<>>
    /\ result = NoResult
    /\ irr = NoIrr
    /\ batch = NoBatch
    /\ caller = NoCaller

\* an interest-only year (153-158)
FloatSculptIOYear ==
    /\ pc = "sculpt"
    /\ year_index < IoYears(tr)
    /\ sched' = [k \in TrNames |->
                   LET interest == DMul(obals[k], tr[k].rate)
                   IN  Append(sched[k], <<interest, DZero, interest>>)]
    /\ year_index' = year_index + 1
    /\ UNCHANGED <<pc, p, cfads, tr, obals, agg, rsv, dsra_cash, fees_cash, result,
                   irr, DriverVars>>

\* an amortization year (161-177)
FloatSculptAmortYear ==
    /\ pc = "sculpt"
    /\ year_index >= IoYears(tr)
    /\ year_index < IoYears(tr) + p.amort_years
    /\ \E interest_map \in {[k \in TrNames |-> DMul(obals[k], tr[k].rate)]} :
       \E sum_bal \in {DSum3(obals)} :
       \E principal_total \in
            {DMax(DZero, DSub(DMax(DZero, DDiv(CfAt(cfads, year_index), p.dscr_target)),
                              DSum3(interest_map)))} :
       \E principal \in
            {[k \in TrNames |->
                LET total_bal == IF sum_bal.s = 0 THEN DOne ELSE sum_bal
                    prorata == IF total_bal.s > 0 THEN DDiv(obals[k], total_bal)
                               ELSE DZero
                IN  DMin(obals[k], DMul(principal_total, prorata))]} :
        /\ obals' = [k \in TrNames |-> DMax(DZero, DSub(obals[k], principal[k]))]
        /\ sched' = [k \in TrNames |->
                       Append(sched[k], <<interest_map[k], principal[k],
                                          DAdd(interest_map[k], principal[k])>>)]
    /\ year_index' = year_index + 1
    /\ UNCHANGED <<pc, p, cfads, tr, agg, rsv, dsra_cash, fees_cash, result,
                   irr, DriverVars>>

\* return schedules (179)
FloatSculptReturn ==
    /\ pc = "sculpt"
    /\ year_index = IoYears(tr) + p.amort_years
    /\ pc' = "sculpt_done"
    /\ UNCHANGED <<p, cfads, tr, obals, sched, year_index, agg, rsv, dsra_cash,
                   fees_cash, result, irr, DriverVars>>

NextSculptFloat ==
    \/ FloatSculptIOYear
    \/ FloatSculptAmortYear
    \/ FloatSculptReturn

SpecSculptFloat == InitSculptFloat /\ [][NextSculptFloat]_vars

\* C29 (as claimed, on the balances the code holds): after every year of a
\* sculpted schedule the tranches with positive principal are either all at a
\* zero balance or all above it, so that they reach zero in the same year.
C29_ZeroInTheSameYear ==
    pc \in {"sculpt", "sculpt_done"} =>
        \A k \in TrNames, j \in TrNames :
            (tr[k].principal.s > 0 /\ tr[j].principal.s > 0) =>
                (obals[k].s = 0 <=> obals[j].s = 0)

-----------------------------------------------------------------------------
(* USD-commercial floor *)

\* the tranche amounts the caps alone give (lines 92-94)
CappedLkr == QMin(QMul(p.debt_total, OrZero(p.mix.lkr_max)), p.debt_total)
CappedDfi == QMin(QMul(p.debt_total, OrZero(p.mix.dfi_max)),
                  QMax(Zero, QSub(p.debt_total, CappedLkr)))
CappedUsd == QMax(Zero, QSub(QSub(p.debt_total, CappedLkr), CappedDfi))
FloorUsd == QMul(p.debt_total, OrZero(p.mix.usd_min))

\* C26: when the USD principal left after the LKR and DFI caps is below
\* floor x total debt the shortfall is taken from LKR first and from DFI only
\* once LKR is zero, and USD ends at min(floor x total debt, total debt);
\* when it is not below the floor no tranche is changed.
C26_ShortfallFromLkrThenDfi ==
    pc = "mix_done" =>
        IF QLt(CappedUsd, FloorUsd)
        THEN /\ tr["USD"].principal = QMin(FloorUsd, p.debt_total)
             /\ QLe(tr["LKR"].principal, CappedLkr)
             /\ QLe(tr["DFI"].principal, CappedDfi)
             /\ QLt(tr["DFI"].principal, CappedDfi) => tr["LKR"].principal = Zero
        ELSE /\ tr["LKR"].principal = CappedLkr
             /\ tr["DFI"].principal = CappedDfi
             /\ tr["USD"].principal = CappedUsd

\* C26 witness: the shortfall empties LKR and takes part of DFI
C26_Witness ==
    /\ pc = "mix_done"
    /\ QLt(CappedUsd, FloorUsd)
    /\ QPos(CappedLkr)
    /\ tr["LKR"].principal = Zero
    /\ QPos(tr["DFI"].principal)
    /\ QLt(tr["DFI"].principal, CappedDfi)
    /\ tr["USD"].principal = FloorUsd

\* a year whose CFADS is negative or whose CFADS / dscr_target does not exceed
\* the year's total interest
NothingToRepay(y) ==
    \/ QLt(CfAt(cfads, y - 1), Zero)
    \/ QLe(QDiv(CfAt(cfads, y - 1), p.dscr_target), TotalInterestAt(y))

\* C27: in an amortizing year of a sculpted schedule where CFADS is negative,
\* or CFADS[y] / dscr_target does not exceed that year's total interest, every
\* tranche repays zero principal, balances are unchanged, and debt service
\* equals interest and is never negative.
C27_NoPrincipalWithoutCover ==
    SculptedBuilt =>
        \A k \in TrNames : \A y \in 1..Len(sched[k]) :
            (y > IoYears(tr) /\ NothingToRepay(y)) =>
                /\ sched[k][y][2] = Zero
                /\ sched[k][y][3] = sched[k][y][1]
                /\ QLe(Zero, sched[k][y][3])
                /\ (pc = "schedule" /\ y = Len(sched[k])) => obals[k] = BalAtStart(k, y)

\* C27 witness: the year just computed has negative CFADS, interest is charged
\* on a positive balance, and an earlier year repaid principal
C27_Witness ==
    /\ SculptedBuilt
    /\ pc = "schedule"
    /\ year_index >= IoYears(tr) + 2
    /\ QLt(CfAt(cfads, year_index - 1), Zero)
    /\ QPos(sched["USD"][year_index][1])
    /\ sched["USD"][year_index][2] = Zero
    /\ obals["USD"] = BalAtStart("USD", year_index)
    /\ QLt(obals["USD"], tr["USD"].principal)

-----------------------------------------------------------------------------
(* _irr_local (irr.py 29-64) in float arithmetic, one loop iteration a step *)

\* a series of project size, on which no midpoint gets within the tolerance
LargeSeries == <<-1000000000, 600000000, 600000000>>
FloatSeries ==
    { <<>>, <<0, 0>>, <<1, 2>>, <<-1, -2>>, <<-1, 6>>, <<-1, 2>>, <<2, -1, -2>>,
      TestSeries, LargeSeries }

DAbs(x) == [x EXCEPT !.s = Abs(@)]
DLo == DOfQ(LocalLo)
DHi == DOfQ(LocalHi)
DTwo == DOfQ(FromInt(2))
\* 1e-10 (irr.py 57)
DTol == DRound(1, <<1>>, NMul(NOf(100000), NOf(100000)), 0)

\* npv (irr.py 13-25): total += float(cf) / ((1.0 + r) ** t), t = 0, 1, ...;
\* the set of totals the platform's pow can lead to
NpvFloatSet(rate, cfs) ==
    LET r == IF DLt(DNeg(DOne), rate) THEN rate ELSE DOfQ(Q(-999999, 1000000))
        base == DAdd(DOne, r)
        RECURSIVE Acc(_, _)
        Acc(t, totals) ==
            IF t >= Len(cfs) THEN totals
            ELSE Acc(t + 1, {DAdd(total, DDiv(DOfQ(FromInt(cfs[t + 1])), pw)) :
                                 total \in totals, pw \in DPowSet(base, t)})
    IN  Acc(0, {DZero})

\* irr.py 60: the sign changes between lo and mid
KeepLowerFloat(f_lo, f_mid) ==
    \/ f_lo.s < 0 /\ f_mid.s > 0
    \/ f_lo.s > 0 /\ f_mid.s < 0

\* _irr_local up to the loop (irr.py 34-51)
FloatCallIrrLocal ==
    /\ irr.fn = "idle"
    /\ \E cfs \in FloatSeries :
       \E f_lo \in NpvFloatSet(DLo, cfs), f_hi \in NpvFloatSet(DHi, cfs) :
        LET ret(o) == [fn |-> "_irr_local", cfs |-> cfs, it |-> 0, lo |-> DLo, hi |-> DHi,
                       f_lo |-> f_lo, f_hi |-> f_hi, at |-> "done", out |-> o]
        IN  irr' = IF cfs = <<>> THEN ret([kind |-> "None"])
                   ELSE IF \A i \in 1..Len(cfs) : cfs[i] = 0
                   THEN ret([kind |-> "zero", rate |-> DZero])
                   ELSE IF f_lo.s = 0 THEN ret([kind |-> "lo", rate |-> DLo])
                   ELSE IF f_hi.s = 0 THEN ret([kind |-> "hi", rate |-> DHi])
                   ELSE IF f_lo.s = f_hi.s THEN ret([kind |-> "None"])
                   ELSE [ret(NoOut) EXCEPT !.at = "loop"]
    /\ UNCHANGED <<DebtVars, DriverVars>>

\* npv(mid, cashflows) of irr.py 56: whatever pow the platform has, npv is a
\* function, so that at a rate it was called with it returns the same total
NpvAgain(mid) ==
    IF mid = irr.lo THEN {irr.f_lo}
    ELSE IF mid = irr.hi THEN {irr.f_hi}
    ELSE NpvFloatSet(mid, irr.cfs)

\* one iteration of the loop (irr.py 54-63), and the return of line 64 after
\* the last one
FloatBisectStep ==
    /\ irr.fn = "_irr_local"
    /\ irr.at = "loop"
    /\ \E mid \in {DDiv(DAdd(irr.lo, irr.hi), DTwo)} :
       \E f_mid \in NpvAgain(mid) :
        LET lower == KeepLowerFloat(irr.f_lo, f_mid)
            next == [irr EXCEPT !.it = @ + 1,
                                !.lo = IF lower THEN @ ELSE mid,
                                !.hi = IF lower THEN mid ELSE @,
                                !.f_lo = IF lower THEN @ ELSE f_mid,
                                !.f_hi = IF lower THEN f_mid ELSE @]
        IN  irr' = IF DLt(DAbs(f_mid), DTol)
                   THEN [irr EXCEPT !.it = @ + 1, !.at = "done",
                                    !.out = [kind |-> "mid", rate |-> mid]]
                   ELSE IF irr.it + 1 = LoopLimit
                   THEN [next EXCEPT !.at = "done",
                           !.out = [kind |-> "final",
                                    rate |-> DDiv(DAdd(next.lo, next.hi), DTwo)]]
                   ELSE next
    /\ UNCHANGED <<DebtVars, DriverVars>>

NextBisFloat ==
    \/ FloatCallIrrLocal
    \/ FloatBisectStep

SpecBisFloat == InitIrr /\ [][NextBisFloat]_vars

DLe(x, y) == ~DLt(y, x)
InDomainF[x \in DoubleSet] == DLe(DLo, x) /\ DLe(x, DHi)
InDomain(x) == InDomainF[x]
\* a step of the loop that goes on, or the last one (the bracket is updated)
BracketUpdated ==
    /\ irr.fn = "_irr_local" /\ irr.at = "loop"
    /\ irr'.fn = "_irr_local" /\ irr'.it = irr.it + 1
    /\ irr'.at = "done" => irr'.out.kind = "final"
\* a step that returns the midpoint within tolerance
MidReturned ==
    /\ irr.fn = "_irr_local" /\ irr.at = "loop"
    /\ irr'.fn = "_irr_local" /\ irr'.at = "done" /\ irr'.out.kind = "mid"

\* C28: every step of the bisection keeps [lo, hi] inside [-0.9999, 5.0] with
\* endpoint NPVs of opposite signs and replaces it by one of its two proper
\* halves [lo, mid] or [mid, hi], lo < mid < hi; the loop ends within 200 steps,
\* returning a midpoint whose NPV is within tolerance or the midpoint of the
\* final bracket, and the returned rate lies in [-0.9999, 5.0]
C28_BisectionHalvesBracket ==
    [][/\ BracketUpdated =>
            /\ InDomain(irr'.lo) /\ InDomain(irr'.hi)
            /\ irr'.f_lo.s * irr'.f_hi.s < 0
            /\ \/ irr'.lo = irr.lo /\ DLt(irr.lo, irr'.hi) /\ DLt(irr'.hi, irr.hi)
               \/ irr'.hi = irr.hi /\ DLt(irr.lo, irr'.lo) /\ DLt(irr'.lo, irr.hi)
            /\ irr'.it <= LoopLimit
            /\ irr'.at = "done" =>
                   /\ irr'.it = LoopLimit
                   /\ irr'.out.rate = DDiv(DAdd(irr'.lo, irr'.hi), DTwo)
                   /\ InDomain(irr'.out.rate)
       /\ MidReturned =>
            /\ irr'.it <= LoopLimit
            /\ irr'.out.rate = DDiv(DAdd(irr.lo, irr.hi), DTwo)
            /\ \E f \in NpvFloatSet(irr'.out.rate, irr.cfs) : DLt(DAbs(f), DTol)
            /\ InDomain(irr'.out.rate)]_vars

\* C28, as far as it holds in binary64: the bracket stays inside
\* [-0.9999, 5.0] with lo < hi and endpoint NPVs of opposite signs, every step
\* moves one endpoint to the float midpoint, which lies in [lo, hi], so the
\* bracket never widens; the loop ends within 200 steps and the returned rate
\* is a midpoint inside the domain
C28_BracketNeverWidens ==
    [][/\ BracketUpdated =>
            /\ InDomain(irr'.lo) /\ InDomain(irr'.hi) /\ DLt(irr'.lo, irr'.hi)
            /\ irr'.f_lo.s * irr'.f_hi.s < 0
            /\ \/ irr'.lo = irr.lo /\ DLe(irr.lo, irr'.hi) /\ DLe(irr'.hi, irr.hi)
               \/ irr'.hi = irr.hi /\ DLe(irr.lo, irr'.lo) /\ DLe(irr'.lo, irr.hi)
            /\ irr'.it <= LoopLimit
            /\ irr'.at = "done" =>
                   /\ irr'.it = LoopLimit
                   /\ irr'.out.rate = DDiv(DAdd(irr'.lo, irr'.hi), DTwo)
                   /\ InDomain(irr'.out.rate)
       /\ MidReturned =>
            /\ irr'.it <= LoopLimit
            /\ irr'.out.rate = DDiv(DAdd(irr.lo, irr.hi), DTwo)
            /\ \E f \in NpvFloatSet(irr'.out.rate, irr.cfs) : DLt(DAbs(f), DTol)
            /\ InDomain(irr'.out.rate)]_vars

\* the loop has used its 200 steps without meeting the tolerance
C28_BudgetExhausted ==
    /\ irr.fn = "_irr_local" /\ irr.at = "done"
    /\ irr.out.kind = "final" /\ irr.it = LoopLimit

\* the series has its internal rate of return strictly inside [-0.9999, 5.0]:
\* its exact NPV changes sign between the two ends of the domain
IrrInsideDomain(cfs) ==
    FSign(BigNpv(cfs, ZOf(LocalLo[1]), ZOf(LocalLo[2])))
        * FSign(BigNpv(cfs, ZOf(LocalHi[1]), ZOf(LocalHi[2]))) < 0

\* npv(r, cashflows) for the rate r that _irr_local returned
NpvOfReturned == NpvAgain(irr.out.rate)

\* C11: for a series with a negative first element followed by inflows whose
\* IRR lies inside the search domain, irr (through _irr_local, irr.py 82)
\* returns a finite rate r whose NPV is zero within the tolerance 1e-10 of the
\* solver; for [-100, 60, 60] the rate is within 0.0001 of 13.07% and inside
\* the band 5%-15%.
C11_IrrRoundTrip ==
    (irr.fn = "_irr_local" /\ irr.at = "done"
        /\ NegThenInflows(irr.cfs) /\ IrrInsideDomain(irr.cfs))
    => /\ irr.out.kind \in {"mid", "final"}
       /\ InDomain(irr.out.rate)
       /\ \A f \in NpvOfReturned : DLt(DAbs(f), DTol)
       /\ irr.cfs = TestSeries
            => /\ DLt(DOfQ(Q(5, 100)), irr.out.rate)
               /\ DLt(irr.out.rate, DOfQ(Q(15, 100)))
               /\ DLt(DOfQ(Q(1306, 10000)), irr.out.rate)
               /\ DLt(irr.out.rate, DOfQ(Q(1308, 10000)))

\* C11, for the series of the test: [-100, 60, 60] returns a midpoint between
\* 13.06% and 13.08% whose NPV is below 1e-10
C11_TestSeriesRoundTrip ==
    (irr.fn = "_irr_local" /\ irr.at = "done" /\ irr.cfs = TestSeries)
    => /\ irr.out.kind = "mid"
       /\ \A f \in NpvOfReturned : DLt(DAbs(f), DTol)
       /\ DLt(DOfQ(Q(1306, 10000)), irr.out.rate)
       /\ DLt(irr.out.rate, DOfQ(Q(1308, 10000)))


-----------------------------------------------------------------------------
(* Tranche life cycle *)

\* the schedules are complete: both constructors have returned
ScheduleBuilt == pc \in {"reserve", "dsra", "dscr"} \/ DebtDone

\* the rows of tranche k follow INTEREST_ONLY, AMORTIZING, MATURED: no
\* principal in the first years_io rows, then tenor_years - max(years_io) rows,
\* and no row after tenor_years
LifeCycle(k) ==
    /\ \A y \in 1..Len(sched[k]) : y <= tr[k].years_io => sched[k][y][2] = Zero
    /\ Len(sched[k]) - IoYears(tr) = p.tenor_years - IoYears(tr)
    /\ Len(sched[k]) <= p.tenor_years

\* C22 (as claimed): for any interest_only_years and tenor_years each tranche
\* pays no principal in its first years_io years, has principal-plus-interest
\* rows for exactly tenor_years - max(years_io) further years, is charged
\* nothing after tenor_years, and what it still owes is the balloon.
C22_TrancheLifeCycle ==
    ScheduleBuilt =>
        /\ \A k \in TrNames : LifeCycle(k)
        /\ DebtDone => result.balloon_remaining =
                          QSum([i \in 1..3 |-> obals[Tranches[i]]])

\* the life cycle when the grace period fits in the tenor
C22_LifeCycleWithinTenor ==
    (ScheduleBuilt /\ IoYears(tr) <= p.tenor_years) =>
        /\ \A k \in TrNames : LifeCycle(k)
        /\ DebtDone => result.balloon_remaining =
                          QSum([i \in 1..3 |-> obals[Tranches[i]]])

-----------------------------------------------------------------------------
(* Debt service reserve account *)

\* months months' worth of the debt service that falls due from year y
\* (1-based) on: a twelfth of a year's service for each month of the window
MonthsWorth(debt_service, y, months) ==
    QSum([j \in 1..months |->
            LET yr == y + ((j - 1) \div 12)
            IN  IF yr <= Len(debt_service)
                THEN QDiv(debt_service[yr], FromInt(12)) ELSE Zero])

\* C23 (as claimed): with a DSRA of dsra_months the target buffer of year y is
\* the debt service of the forward window debt_service[y : y + dsra_months/12],
\* dsra_months months' worth of upcoming debt service, and after each year's
\* funding or release the reserve balance equals that year's target.
C23_TargetIsMonthsOfService ==
    pc = "dsra" =>
        /\ \A y \in 1..agg.total_years :
              rsv.target_buf[y] = MonthsWorth(agg.debt_service, y, rsv.dsra_m)
        /\ rsv.y > 0 => rsv.buf = rsv.target_buf[rsv.y]

\* the balance follows the target the code computes
C23_BalanceFollowsTarget ==
    (pc = "dsra" /\ rsv.y > 0) => rsv.buf = rsv.target_buf[rsv.y]

\* a year of the DSRA loop has just been processed
DsraYearDone == pc = "dsra" /\ pc' = "dsra" /\ rsv'.y = rsv.y + 1

\* funding minus releases recorded in dsra_cash for years 1..y
RECURSIVE NetFunded(_, _)
NetFunded(cash, y) ==
    IF y = 0 THEN Zero ELSE QSub(NetFunded(cash, y - 1), cash[y])

\* C30: after every year of the DSRA loop the reserve balance is not negative
\* and equals the funding minus the releases that dsra_cashflows records up to
\* that year; a year whose target is within 1e-9 of the balance records no
\* cash flow and leaves the balance as it was.
C30_BalanceIsNetFunding ==
    [][DsraYearDone =>
         /\ QLe(Zero, rsv'.buf)
         /\ rsv'.buf = NetFunded(dsra_cash', rsv'.y)
         /\ \A y \in (rsv'.y + 1)..Len(dsra_cash') : dsra_cash'[y] = Zero
         /\ QLt(QAbs(QSub(rsv.target_buf[rsv'.y], rsv.buf)), Eps9) =>
                /\ dsra_cash' = dsra_cash
                /\ dsra_cash'[rsv'.y] = Zero
                /\ rsv'.buf = rsv.buf]_vars

\* C30 witness: the reserve was funded in the first year, the second year's
\* target equalled the balance and recorded nothing, and the third year
\* released part of the balance
C30_Witness ==
    /\ pc = "dsra"
    /\ rsv.y = 3
    /\ QLt(dsra_cash[1], Zero)
    /\ dsra_cash[2] = Zero
    /\ QPos(dsra_cash[3])
    /\ QPos(rsv.buf)
    /\ rsv.buf = NetFunded(dsra_cash, 3)
    /\ rsv.target_buf[2] = rsv.target_buf[1]

Next ==
    \/ EnterEquityOnly
    \/ EnterDebt
    \/ TrancheMix
    \/ IOYear
    \/ AnnuityYear
    \/ SculptedYear
    \/ Aggregate
    \/ ReserveSelect
    \/ DsraYear
    \/ DsraDone
    \/ Finish

Spec == Init /\ [][Next]_vars
====
